---- MODULE Spec2Model ----
(***************************************************************************)
(* The job pipeline of the manga translator, as its three servers run it:  *)
(*   - backend/app/main.py + backend/app/tasks.py: a Job row in the        *)
(*     database, advanced by the Celery chain ocr_task -> translation_task *)
(*     -> rendering_task;                                                  *)
(*   - backend/app/simplified_main.py: an in-memory jobs table, advanced   *)
(*     by the background coroutine process_file, which calls               *)
(*     MangaTranslator.process_pdf / process_manga_image;                  *)
(*   - run_api.py: an in-memory jobs table, advanced by the thread         *)
(*     update_progress of simulate_progress.                               *)
(* A call into a collaborator (storage, OCR, translator, renderer, PDF     *)
(* conversion) either returns or raises.  A database commit is atomic; a   *)
(* write to one key of an in-memory job dict is atomic, two writes are     *)
(* not.                                                                    *)
(***************************************************************************)
EXTENDS Integers, Sequences, FiniteSets, TLC

VARIABLES
    env,      \* import-time flags of simplified_main / enhanced_processing
    app,      \* app[j]: the server the job was uploaded to, or "none"
    doc,      \* doc[j]: the uploaded file: [pdf, n] (n pages)
    job,      \* job[j]: the job record: [status, progress, error, result]
    pc,       \* pc[j]: where the job's pipeline stands
    idx,      \* idx[j]: the loop variable of the loop the pipeline is in
    success,  \* success[j]: process_file's local variable
    ext,      \* ext[j]: pages whose regions have been detected and extracted
    trn,      \* trn[j]: pages whose regions have been translated
    out,      \* out[j]: output_images / processed_images, the pages to combine
    artifact, \* artifact[j]: the result file: whether one is stored, and its pages
    tmp,      \* tmp[j]: the files of the job's temporary working storage
    hist,     \* hist[j]: what has happened to the job (history, not program state)
    redeliveries, \* how many task messages have been delivered a second time
    rd,       \* the status request in flight, if any
    resp,     \* the response to the last upload request
    det,      \* the region detection under way: its image, its regions so far
    lay,      \* the rendering of a region under way: its input, what was drawn
    ocr,      \* the text extraction under way: the readings, the regions passed on
    fnt       \* the font size estimation under way: its input, the size

\* The variables of the job pipeline.
jobvars == <<env, app, doc, job, pc, idx, success, ext, trn, out, artifact, tmp,
             hist, redeliveries, rd, resp>>

vars == <<jobvars, det, lay, ocr, fnt>>

\* ------------------------------------------------------------------ bounds
MaxPages == 2
MaxRedeliver == 1
MaxSide == 32
MaxWords == 3
LayoutSide == 5
MaxReadings == 2
MaxHeight == 100
MaxTextLength == 40
JobIds == {"j1", "j2"}

\* ---------------------------------------------------------------- values
None == "<None>"

\* str(e) of the exception a collaborator raised: empty (MemoryError(),
\* TimeoutError(), ...) or a text.
ErrTexts == {"", "error"}

\* backend/app/core/config.py lines 35-36: the languages of an upload that
\* names none.
DEFAULT_SOURCE_LANGUAGE == "Japanese"

DEFAULT_TARGET_LANGUAGE == "English"

\* An uploaded file with the form fields of its request: an image or a PDF
\* of n pages, whether its bytes decode, and the two language names.
File(pdf, n) == [pdf |-> pdf, n |-> n, decodable |-> TRUE,
                 source |-> DEFAULT_SOURCE_LANGUAGE, target |-> DEFAULT_TARGET_LANGUAGE]

Docs == {File(FALSE, 1)} \cup {File(TRUE, k) : k \in 1..MaxPages}

NoDoc == File(FALSE, 0)

NoJob == [status |-> "absent", progress |-> 0, error |-> None, result |-> None]

NoHist == [err |-> "none", errProgress |-> 0, after |-> FALSE, trRaised |-> FALSE,
           done |-> {}]

\* No upload request has been answered.
NoResp == [code |-> 0, job |-> None, doc |-> NoDoc]

RdIdle == [job |-> None, at |-> "idle", status |-> None, progress |-> 0,
           result |-> None, error |-> None]

\* A page of an output: the input page it comes from, and whether the
\* translation was rendered onto it.
Rendered(k) == [src |-> k, rendered |-> TRUE]

Original(k) == [src |-> k, rendered |-> FALSE]

\* shutil.copy(input_path, output_path): the input's pages, untouched.
InputCopy(d) == [k \in 1..d.n |-> Original(k)]

\* The result file: none yet, or the file with these pages.
NoArtifact == [stored |-> FALSE, pages |-> <<>>]

Stored(pages) == [stored |-> TRUE, pages |-> pages]

Terminal(s) == s \in {"completed", "failed"}

\* ------------------------------------------------------- history helpers
\* A stage step runs: remember whether it runs after a stage has raised.
RanStep(h) == [h EXCEPT !.after = @ \/ (h.err # "none")]

\* A stage raises: remember the first stage that did, and the progress then.
Raised(h, stage, progress) ==
    IF h.err = "none" THEN [h EXCEPT !.err = stage, !.errProgress = progress] ELSE h

\* ------------------------------------------------------------------ Init
Envs == {[enhanced |-> TRUE, pdf_support |-> TRUE],
         [enhanced |-> TRUE, pdf_support |-> FALSE],
         [enhanced |-> FALSE, pdf_support |-> FALSE]}

InitJobs ==
    /\ env \in Envs
    /\ app = [j \in JobIds |-> "none"]
    /\ doc = [j \in JobIds |-> NoDoc]
    /\ job = [j \in JobIds |-> NoJob]
    /\ pc = [j \in JobIds |-> "none"]
    /\ idx = [j \in JobIds |-> 0]
    /\ success = [j \in JobIds |-> FALSE]
    /\ ext = [j \in JobIds |-> {}]
    /\ trn = [j \in JobIds |-> {}]
    /\ out = [j \in JobIds |-> <<>>]
    /\ artifact = [j \in JobIds |-> NoArtifact]
    /\ tmp = [j \in JobIds |-> {}]
    /\ hist = [j \in JobIds |-> NoHist]
    /\ redeliveries = 0
    /\ rd = RdIdle
    /\ resp = NoResp

\* No job, and a server with every optional import present.
JobsIdle == InitJobs /\ env.enhanced /\ env.pdf_support

\* ===================================================== backend/app/main.py
\* upload_file: the Job row is created PENDING with progress 0 and
\* process_manga.delay(job_id) queues the chain.
main_upload_file(j, d) ==
    /\ app[j] = "none"
    /\ app' = [app EXCEPT ![j] = "celery"]
    /\ doc' = [doc EXCEPT ![j] = d]
    /\ job' = [job EXCEPT ![j] = [status |-> "pending", progress |-> 0,
                                  error |-> None, result |-> None]]
    /\ pc' = [pc EXCEPT ![j] = "ocr_queued"]
    /\ UNCHANGED <<env, tmp, idx, success, ext, trn, out, artifact, hist, redeliveries, rd>>

\* ======================================================= language lookups
\* dict.get(key, default)
DictGet(d, key, default) == IF key \in DOMAIN d THEN d[key] ELSE default

\* backend/app/core/config.py lines 37-41: SUPPORTED_LANGUAGES, the registry.
Registry == {"Japanese", "English", "Chinese", "Korean", "Spanish", "French",
             "German", "Russian", "Italian", "Portuguese", "Arabic"}

\* OCRService._map_language_to_tesseract, lines 140-152: language_map.
language_map ==
    [Japanese |-> "jpn", English |-> "eng", Chinese |-> "chi_sim", Korean |-> "kor",
     Spanish |-> "spa", French |-> "fra", German |-> "deu", Russian |-> "rus",
     Italian |-> "ita", Portuguese |-> "por", Arabic |-> "ara"]

\* OCRService._map_language_to_tesseract, line 154.
map_language_to_tesseract(language) == DictGet(language_map, language, "eng")

\* TranslationService._get_model_name, lines 69-81: lang_to_iso.
lang_to_iso ==
    [Japanese |-> "jap", English |-> "en", Chinese |-> "zh", Korean |-> "kor",
     Spanish |-> "es", French |-> "fr", German |-> "de", Russian |-> "ru",
     Italian |-> "it", Portuguese |-> "pt", Arabic |-> "ar"]

\* TranslationService._get_model_name, lines 83-87: the two codes of the
\* model's name "Helsinki-NLP/opus-mt-{source_iso}-{target_iso}".
get_model_name(source_lang, target_lang) ==
    <<DictGet(lang_to_iso, source_lang, "en"), DictGet(lang_to_iso, target_lang, "en")>>

\* ==================================================== backend/app/tasks.py
\* The checkpoints the three tasks commit.
OcrStartProgress == 10
OcrDoneProgress == 40
TranslationStartProgress == 50
TranslationDoneProgress == 70
RenderingStartProgress == 80
CompletedProgress == 100

\* The stage a control point of the chain belongs to.
StageOf(p) ==
    CASE p \in {"ocr_get", "ocr_pages", "ocr_save"} -> "ocr"
      [] p \in {"tr_run"} -> "translate"
      [] p \in {"rn_run", "rn_combine", "rn_store", "rn_url"} -> "render"
      [] OTHER -> "none"

\* job.progress = p; db.commit()
CommitProgress(r, p) == [r EXCEPT !.progress = p]

\* ocr_task, lines 24-31: status PROCESSING and progress 10, committed together.
ocr_task_start(j) ==
    /\ pc[j] = "ocr_queued"
    /\ job' = [job EXCEPT ![j] = [CommitProgress(@, OcrStartProgress)
                                    EXCEPT !.status = "processing"]]
    /\ pc' = [pc EXCEPT ![j] = "ocr_get"]
    /\ UNCHANGED <<env, tmp, app, doc, idx, success, ext, trn, out, artifact, hist,
                   redeliveries, rd>>

\* ocr_task, lines 33-42: the temp directory of the job is made and
\* storage_service.get_file puts the uploaded file in it.
ocr_task_get_file(j) ==
    /\ pc[j] = "ocr_get"
    /\ pc' = [pc EXCEPT ![j] = "ocr_pages"]
    /\ idx' = [idx EXCEPT ![j] = 1]
    /\ ext' = [ext EXCEPT ![j] = {}]
    /\ tmp' = [tmp EXCEPT ![j] = @ \cup {"temp_dir", "input"}]
    /\ UNCHANGED <<env, app, doc, job, success, trn, out, artifact, hist,
                   redeliveries, rd>>

\* ocr_task, lines 46 and 64: ocr_service.process_pdf runs process_image on
\* the pages in order; ocr_service.process_image on the one image.  A file
\* that does not decode makes convert_from_path (ocr.py line 68) or
\* process_image (ocr.py lines 20-22) raise.  process_pdf saves each page in
\* the temp directory and removes it after the page (ocr.py lines 74-82);
\* the files convert_from_path writes there (line 68) stay.
ocr_task_page(j) ==
    /\ pc[j] = "ocr_pages"
    /\ idx[j] <= doc[j].n
    /\ doc[j].decodable
    /\ ext' = [ext EXCEPT ![j] = @ \cup {idx[j]}]
    /\ idx' = [idx EXCEPT ![j] = @ + 1]
    /\ pc' = [pc EXCEPT ![j] = IF idx[j] < doc[j].n THEN "ocr_pages"
                               ELSE IF doc[j].pdf THEN "ocr_save" ELSE "ocr_commit"]
    /\ hist' = [hist EXCEPT ![j] = RanStep(@)]
    /\ tmp' = [tmp EXCEPT ![j] = IF doc[j].pdf THEN @ \cup {"converted"} ELSE @]
    /\ UNCHANGED <<env, app, doc, job, success, trn, out, artifact, redeliveries, rd>>

\* ocr_task, lines 48-53: the pages of the PDF are saved as images in the
\* temp directory.
ocr_task_save_pages(j) ==
    /\ pc[j] = "ocr_save"
    /\ pc' = [pc EXCEPT ![j] = "ocr_commit"]
    /\ tmp' = [tmp EXCEPT ![j] = @ \cup {"pages"}]
    /\ UNCHANGED <<env, app, doc, job, idx, success, ext, trn, out, artifact, hist,
                   redeliveries, rd>>

\* ocr_task, lines 72-76: progress 40 is committed and the result returned;
\* the chain queues translation_task with it.
ocr_task_done(j) ==
    /\ pc[j] = "ocr_commit"
    /\ job' = [job EXCEPT ![j] = CommitProgress(@, OcrDoneProgress)]
    /\ pc' = [pc EXCEPT ![j] = "tr_queued"]
    /\ hist' = [hist EXCEPT ![j].done = @ \cup {"ocr"}]
    /\ UNCHANGED <<env, tmp, app, doc, idx, success, ext, trn, out, artifact,
                   redeliveries, rd>>

\* translation_task, lines 93-99: progress 50.
translation_task_start(j) ==
    /\ pc[j] = "tr_queued"
    /\ job' = [job EXCEPT ![j] = CommitProgress(@, TranslationStartProgress)]
    /\ pc' = [pc EXCEPT ![j] = "tr_run"]
    /\ idx' = [idx EXCEPT ![j] = 1]
    /\ trn' = [trn EXCEPT ![j] = {}]
    /\ UNCHANGED <<env, tmp, app, doc, success, ext, out, artifact, hist, redeliveries, rd>>

\* translation_task, lines 102-114: translate_ocr_results, page by page.
translation_task_page(j) ==
    /\ pc[j] = "tr_run"
    /\ idx[j] <= doc[j].n
    /\ trn' = [trn EXCEPT ![j] = @ \cup {idx[j]}]
    /\ idx' = [idx EXCEPT ![j] = @ + 1]
    /\ pc' = [pc EXCEPT ![j] = IF idx[j] < doc[j].n THEN "tr_run" ELSE "tr_commit"]
    /\ hist' = [hist EXCEPT ![j] = RanStep(@)]
    /\ UNCHANGED <<env, tmp, app, doc, job, success, ext, out, artifact, redeliveries, rd>>

\* translation_task, lines 117-124: progress 70, result returned; the chain
\* queues rendering_task.
translation_task_done(j) ==
    /\ pc[j] = "tr_commit"
    /\ job' = [job EXCEPT ![j] = CommitProgress(@, TranslationDoneProgress)]
    /\ pc' = [pc EXCEPT ![j] = "rn_queued"]
    /\ hist' = [hist EXCEPT ![j].done = @ \cup {"translate"}]
    /\ UNCHANGED <<env, tmp, app, doc, idx, success, ext, trn, out, artifact,
                   redeliveries, rd>>

\* rendering_task, lines 141-151: progress 80.
rendering_task_start(j) ==
    /\ pc[j] = "rn_queued"
    /\ job' = [job EXCEPT ![j] = CommitProgress(@, RenderingStartProgress)]
    /\ pc' = [pc EXCEPT ![j] = "rn_run"]
    /\ idx' = [idx EXCEPT ![j] = 1]
    /\ out' = [out EXCEPT ![j] = <<>>]
    /\ UNCHANGED <<env, tmp, app, doc, success, ext, trn, artifact, hist, redeliveries, rd>>

\* RenderingService.render_text_on_pdf, lines 65-69: output_images gets the
\* rendering of each page, in the order of zip(pdf_images, results).
AppendPage_Reversed(o, k) == <<Rendered(k)>> \o o

AppendPage(o, k) == Append(o, Rendered(k))

\* RenderingService.render_text_on_pdf, line 66: zip(pdf_images,
\* translated_results_per_page) stops with the shorter list.
ZipLength(a, b) == IF a <= b THEN a ELSE b

\* The pages rendering_task renders: the page images ocr_task saved, zipped
\* with the pages translation_task translated; the one image otherwise.
RenderCount(j) == IF doc[j].pdf THEN ZipLength(doc[j].n, Cardinality(trn[j])) ELSE 1

\* rendering_task, lines 154-171: render_text_on_pdf's loop over the pages,
\* or render_text_on_image on the one image; the rendering is written to
\* the temp directory (lines 150-151, 165; rendering.py line 67).
rendering_task_page(j) ==
    /\ pc[j] = "rn_run"
    /\ idx[j] <= RenderCount(j)
    /\ out' = [out EXCEPT ![j] = AppendPage(@, idx[j])]
    /\ idx' = [idx EXCEPT ![j] = @ + 1]
    /\ pc' = [pc EXCEPT ![j] = IF idx[j] < RenderCount(j) THEN "rn_run"
                               ELSE IF doc[j].pdf THEN "rn_combine" ELSE "rn_store"]
    /\ hist' = [hist EXCEPT ![j] = RanStep(@)]
    /\ tmp' = [tmp EXCEPT ![j] = @ \cup {"temp_dir", IF doc[j].pdf THEN "rendered"
                                                       ELSE "output"}]
    /\ UNCHANGED <<env, app, doc, job, success, ext, trn, artifact, redeliveries, rd>>

\* RenderingService.render_text_on_pdf, lines 71-79: _combine_images_to_pdf
\* writes the output in the temp directory; the rendered pages are removed.
rendering_task_combine(j) ==
    /\ pc[j] = "rn_combine"
    /\ pc' = [pc EXCEPT ![j] = "rn_store"]
    /\ tmp' = [tmp EXCEPT ![j] = (@ \ {"rendered"}) \cup {"output"}]
    /\ UNCHANGED <<env, app, doc, job, idx, success, ext, trn, out, artifact, hist,
                   redeliveries, rd>>

\* rendering_task, line 174: storage_service.save_result stores the output.
rendering_task_save_result(j) ==
    /\ pc[j] = "rn_store"
    /\ artifact' = [artifact EXCEPT ![j] = Stored(out[j])]
    /\ pc' = [pc EXCEPT ![j] = "rn_commit"]
    /\ UNCHANGED <<env, tmp, app, doc, job, idx, success, ext, trn, out, hist,
                   redeliveries, rd>>

\* rendering_task, lines 177-180: COMPLETED, progress 100 and the result path,
\* committed together.
rendering_task_commit(j) ==
    /\ pc[j] = "rn_commit"
    /\ job' = [job EXCEPT ![j] = [CommitProgress(@, CompletedProgress)
                                    EXCEPT !.status = "completed", !.result = "path"]]
    /\ pc' = [pc EXCEPT ![j] = "rn_url"]
    /\ UNCHANGED <<env, tmp, app, doc, idx, success, ext, trn, out, artifact, hist,
                   redeliveries, rd>>

\* rendering_task, lines 183-189: storage_service.get_download_url returns.
rendering_task_done(j) ==
    /\ pc[j] = "rn_url"
    /\ pc' = [pc EXCEPT ![j] = "done"]
    /\ hist' = [hist EXCEPT ![j].done = @ \cup {"render"}]
    /\ UNCHANGED <<env, tmp, app, doc, job, idx, success, ext, trn, out, artifact,
                   redeliveries, rd>>

\* An except block that also starts the progress over.
MarkFailed_ResetProgress(r, msg) ==
    [r EXCEPT !.status = "failed", !.error = msg, !.progress = 0]

\* The except block of the three tasks (lines 77-82, 125-130, 190-195):
\* FAILED and str(e), committed together; progress is not written.
MarkFailed(r, msg) == [r EXCEPT !.status = "failed", !.error = msg]

\* The control points of the chain at which a collaborator is being called.
TaskRaisePoints == {"ocr_get", "ocr_pages", "ocr_save", "tr_run",
                    "rn_run", "rn_combine", "rn_store", "rn_url"}

\* A task without the except block: the call raises and the task ends.
task_raise_Unhandled(j) ==
    /\ pc[j] \in TaskRaisePoints
    /\ hist' = [hist EXCEPT ![j] = Raised(@, StageOf(pc[j]), job[j].progress)]
    /\ pc' = [pc EXCEPT ![j] = "failed"]
    /\ UNCHANGED <<env, tmp, app, doc, job, idx, success, ext, trn, out, artifact,
                   redeliveries, rd>>

\* A call inside a task's try block raises: the except block runs and the
\* task re-raises, so the chain queues nothing more.  No except or finally
\* block touches the temp directory (made, in ocr_task, before get_file is
\* called).
task_raise(j) ==
    /\ pc[j] \in TaskRaisePoints
    /\ \E msg \in ErrTexts :
          job' = [job EXCEPT ![j] = MarkFailed(@, msg)]
    /\ hist' = [hist EXCEPT ![j] =
                  [Raised(@, StageOf(pc[j]), job[j].progress)
                     EXCEPT !.trRaised = @ \/ (pc[j] = "tr_run")]]
    /\ pc' = [pc EXCEPT ![j] = "failed"]
    /\ tmp' = [tmp EXCEPT ![j] = IF pc[j] = "ocr_get" THEN @ \cup {"temp_dir"} ELSE @]
    /\ UNCHANGED <<env, app, doc, idx, success, ext, trn, out, artifact,
                   redeliveries, rd>>

CeleryStep(j) ==
    \/ ocr_task_start(j)
    \/ ocr_task_get_file(j)
    \/ ocr_task_page(j)
    \/ ocr_task_save_pages(j)
    \/ ocr_task_done(j)
    \/ translation_task_start(j)
    \/ translation_task_page(j)
    \/ translation_task_done(j)
    \/ rendering_task_start(j)
    \/ rendering_task_page(j)
    \/ rendering_task_combine(j)
    \/ rendering_task_save_result(j)
    \/ rendering_task_commit(j)
    \/ rendering_task_done(j)
    \/ task_raise(j)

\* ========================================== backend/app/simplified_main.py
\* SUPPORTED_LANGUAGES, lines 56-61: the targets of each source language.
SUPPORTED_LANGUAGES ==
    [l \in {"Japanese", "Chinese", "Korean", "English"} |->
        IF l = "English" THEN {"Japanese", "Chinese", "Spanish", "French", "German"}
        ELSE {"English", "Spanish", "French", "German"}]

\* upload_file, lines 100-109: the two checks an upload has to pass.
LanguagesSupported(d) ==
    /\ d.source \in DOMAIN SUPPORTED_LANGUAGES
    /\ d.target \in SUPPORTED_LANGUAGES[d.source]

\* upload_file, lines 100-109 and 183-185: HTTPException(400) when a
\* language check fails; no entry is added to the jobs table.
simplified_upload_reject(d) ==
    /\ ~LanguagesSupported(d)
    /\ resp' = [code |-> 400, job |-> None, doc |-> d]
    /\ UNCHANGED <<env, tmp, app, doc, job, pc, idx, success, ext, trn, out, artifact,
                   hist, redeliveries, rd>>

\* upload_file, lines 150-172: the entry of the jobs table, with the result
\* path already in it, and process_file added as a background task.
simplified_upload_file(j, d) ==
    /\ LanguagesSupported(d)
    /\ app[j] = "none"
    /\ app' = [app EXCEPT ![j] = "simple"]
    /\ doc' = [doc EXCEPT ![j] = d]
    /\ job' = [job EXCEPT ![j] = [status |-> "queued", progress |-> 0,
                                  error |-> None, result |-> "path"]]
    /\ pc' = [pc EXCEPT ![j] = "pf_queued"]
    /\ UNCHANGED <<env, tmp, idx, success, ext, trn, out, artifact, hist, redeliveries, rd>>

\* The progress values process_file writes.
CreatedProgress == 25
ProcessedProgress == 90

\* process_file, line 200.
process_file_start(j) ==
    /\ pc[j] = "pf_queued"
    /\ job' = [job EXCEPT ![j].status = "processing"]
    /\ pc' = [pc EXCEPT ![j] = "pf_create"]
    /\ UNCHANGED <<env, tmp, app, doc, idx, success, ext, trn, out, artifact, hist,
                   redeliveries, rd>>

\* process_file, lines 204-216: the translator is created, progress 25,
\* success = False.
process_file_created(j) ==
    /\ pc[j] = "pf_create"
    /\ job' = [job EXCEPT ![j].progress = CreatedProgress]
    /\ success' = [success EXCEPT ![j] = FALSE]
    /\ pc' = [pc EXCEPT ![j] = "pf_process"]
    /\ UNCHANGED <<env, tmp, app, doc, idx, ext, trn, out, artifact, hist, redeliveries, rd>>

\* process_file, lines 232-236, without enhanced processing: the PDF is
\* copied as the result.
process_file_copy_pdf(j) ==
    /\ pc[j] = "pf_process"
    /\ doc[j].pdf /\ ~env.enhanced
    /\ artifact' = [artifact EXCEPT ![j] = Stored(InputCopy(doc[j]))]
    /\ success' = [success EXCEPT ![j] = TRUE]
    /\ pc' = [pc EXCEPT ![j] = "pf_processed"]
    /\ UNCHANGED <<env, tmp, app, doc, job, idx, ext, trn, out, hist, redeliveries, rd>>

\* process_file, lines 244-246, without enhanced processing:
\* simple_processing.process_manga_image returns what its
\* overlay_translated_text returns, True with the image written or False.
process_file_simple_image(j) ==
    /\ pc[j] = "pf_process"
    /\ ~doc[j].pdf /\ ~env.enhanced
    /\ \/ /\ doc[j].decodable
          /\ artifact' = [artifact EXCEPT ![j] = Stored(<<Rendered(1)>>)]
          /\ success' = [success EXCEPT ![j] = TRUE]
          /\ hist' = [hist EXCEPT ![j] = RanStep(@)]
       \/ /\ success' = [success EXCEPT ![j] = FALSE]
          /\ hist' = [hist EXCEPT ![j] = Raised(@, "render", job[j].progress)]
          /\ UNCHANGED artifact
    /\ pc' = [pc EXCEPT ![j] = "pf_processed"]
    /\ UNCHANGED <<env, tmp, app, doc, job, idx, ext, trn, out, redeliveries, rd>>

\* A call of process_file's try block raises out of it: shutil.copy of line
\* 235, the copy of MangaTranslator.process_pdf line 387 and os.makedirs of
\* process_manga_image (line 359; simple_processing line 117) are outside
\* every inner try.  Control goes to the except block of line 269.
process_file_raise(j) ==
    /\ pc[j] = "pf_process"
    /\ \/ doc[j].pdf /\ ~(env.enhanced /\ env.pdf_support)
       \/ ~doc[j].pdf
    /\ hist' = [hist EXCEPT ![j] = Raised(@, "process", job[j].progress)]
    /\ pc' = [pc EXCEPT ![j] = "pf_except"]
    /\ UNCHANGED <<env, tmp, app, doc, job, idx, success, ext, trn, out, artifact,
                   redeliveries, rd>>

\* ---------------------------------------- backend/app/enhanced_processing.py
\* MangaTranslator.process_pdf, lines 383-388: without PDF support the input
\* is copied to the output and True returned.
process_pdf_unsupported(j) ==
    /\ pc[j] = "pf_process"
    /\ doc[j].pdf /\ env.enhanced /\ ~env.pdf_support
    /\ artifact' = [artifact EXCEPT ![j] = Stored(InputCopy(doc[j]))]
    /\ success' = [success EXCEPT ![j] = TRUE]
    /\ pc' = [pc EXCEPT ![j] = "pf_processed"]
    /\ UNCHANGED <<env, tmp, app, doc, job, idx, ext, trn, out, hist, redeliveries, rd>>

\* MangaTranslator.process_pdf, lines 392-449: inside a
\* tempfile.TemporaryDirectory, convert_from_path gives the pages; when
\* every attempt fails the input is copied and True returned (the directory
\* is removed on the way out).
process_pdf_convert(j) ==
    /\ pc[j] = "pf_process"
    /\ doc[j].pdf /\ env.enhanced /\ env.pdf_support
    /\ \/ /\ doc[j].decodable
          /\ pc' = [pc EXCEPT ![j] = "mi_detect"]
          /\ idx' = [idx EXCEPT ![j] = 1]
          /\ out' = [out EXCEPT ![j] = <<>>]
          /\ tmp' = [tmp EXCEPT ![j] = @ \cup {"pdf_dir"}]
          /\ UNCHANGED <<success, artifact, hist>>
       \/ /\ artifact' = [artifact EXCEPT ![j] = Stored(InputCopy(doc[j]))]
          /\ success' = [success EXCEPT ![j] = TRUE]
          /\ hist' = [hist EXCEPT ![j] = Raised(@, "ocr", job[j].progress)]
          /\ pc' = [pc EXCEPT ![j] = "pf_processed"]
          /\ UNCHANGED <<idx, out, tmp>>
    /\ UNCHANGED <<env, app, doc, job, ext, trn, redeliveries, rd>>

\* process_file, line 243: MangaTranslator.process_manga_image on the image
\* (lines 354-359: the input exists, the output directory is made).
process_manga_image_begin(j) ==
    /\ pc[j] = "pf_process"
    /\ ~doc[j].pdf /\ env.enhanced
    /\ pc' = [pc EXCEPT ![j] = "mi_detect"]
    /\ idx' = [idx EXCEPT ![j] = 1]
    /\ out' = [out EXCEPT ![j] = <<>>]
    /\ UNCHANGED <<env, tmp, app, doc, job, success, ext, trn, artifact, hist,
                   redeliveries, rd>>

\* MangaTranslator.process_manga_image, lines 362-366: the regions of the
\* page, with their text (detection falls back to simulated regions and
\* never raises).  detect_text_regions_with_tesseract writes the
\* preprocessed page to a file of tempfile.mktemp (lines 119-120) and
\* unlinks it after pytesseract.image_to_data (lines 124-127); when that
\* call raises, the except block of line 146 leaves the file.
process_manga_image_detect(j) ==
    /\ pc[j] = "mi_detect"
    /\ ext' = [ext EXCEPT ![j] = @ \cup {idx[j]}]
    /\ hist' = [hist EXCEPT ![j] = RanStep(@)]
    /\ pc' = [pc EXCEPT ![j] = "mi_translate"]
    /\ \/ UNCHANGED tmp
       \/ tmp' = [tmp EXCEPT ![j] = @ \cup {"preprocessed"}]
    /\ UNCHANGED <<env, app, doc, job, idx, success, trn, out, artifact,
                   redeliveries, rd>>

\* MangaTranslator.translate_text, lines 192-221: what the method does when
\* the model raises: the except block returns the mock translation.
TranslateRaised(h, progress) ==
    [Raised(h, "translate", progress) EXCEPT !.trRaised = TRUE]

\* MangaTranslator.process_manga_image, lines 369-371: translate_text on
\* every region of the page; the translator returns, or raises inside
\* translate_text.
process_manga_image_translate(j) ==
    /\ pc[j] = "mi_translate"
    /\ trn' = [trn EXCEPT ![j] = @ \cup {idx[j]}]
    /\ \/ hist' = [hist EXCEPT ![j] = RanStep(@)]
       \/ hist' = [hist EXCEPT ![j] = TranslateRaised(RanStep(@), job[j].progress)]
    /\ pc' = [pc EXCEPT ![j] = "mi_overlay"]
    /\ UNCHANGED <<env, tmp, app, doc, job, idx, success, ext, out, artifact,
                   redeliveries, rd>>

\* MangaTranslator.process_pdf, lines 460-464: the processed page on
\* success, the original page when processing failed.
PageResult(ok, k) == IF ok THEN Rendered(k) ELSE Original(k)

\* MangaTranslator.process_manga_image, line 374 (and its except, 375-377):
\* overlay_translated_text returns True with the page written, or False
\* (Image.open of line 290 raises on a file that does not decode).
\* For a page of a PDF, process_pdf lines 460-464 append to processed_images
\* and go on with the next page; for an image the value is process_file's
\* success.
process_manga_image_overlay(j) ==
    /\ pc[j] = "mi_overlay"
    /\ \E ok \in BOOLEAN :
          /\ ok => doc[j].decodable
          /\ hist' = [hist EXCEPT ![j] =
                        IF ok THEN RanStep(@)
                        ELSE Raised(RanStep(@), "render", job[j].progress)]
          /\ IF doc[j].pdf
             THEN /\ out' = [out EXCEPT ![j] = Append(@, PageResult(ok, idx[j]))]
                  /\ idx' = [idx EXCEPT ![j] = @ + 1]
                  /\ pc' = [pc EXCEPT ![j] = IF idx[j] < doc[j].n THEN "mi_detect"
                                             ELSE "pp_combine"]
                  /\ UNCHANGED <<success, artifact>>
             ELSE /\ success' = [success EXCEPT ![j] = ok]
                  /\ artifact' = [artifact EXCEPT ![j] =
                                    IF ok THEN Stored(<<Rendered(1)>>) ELSE @]
                  /\ pc' = [pc EXCEPT ![j] = "pf_processed"]
                  /\ UNCHANGED <<out, idx>>
    /\ UNCHANGED <<env, tmp, app, doc, job, ext, trn, redeliveries, rd>>

\* MangaTranslator.process_pdf, lines 467-498 (leaving the temporary
\* directory of line 392, which removes it): the pages are saved as one
\* PDF; when that raises the input is copied instead (True), and when the
\* copy raises too the method returns False.
process_pdf_combine(j) ==
    /\ pc[j] = "pp_combine"
    /\ \/ /\ artifact' = [artifact EXCEPT ![j] = Stored(out[j])]
          /\ success' = [success EXCEPT ![j] = TRUE]
          /\ UNCHANGED hist
       \/ /\ artifact' = [artifact EXCEPT ![j] = Stored(InputCopy(doc[j]))]
          /\ success' = [success EXCEPT ![j] = TRUE]
          /\ hist' = [hist EXCEPT ![j] = Raised(@, "render", job[j].progress)]
       \/ /\ success' = [success EXCEPT ![j] = FALSE]
          /\ hist' = [hist EXCEPT ![j] = Raised(@, "render", job[j].progress)]
          /\ UNCHANGED artifact
    /\ pc' = [pc EXCEPT ![j] = "pf_processed"]
    /\ tmp' = [tmp EXCEPT ![j] = @ \ {"pdf_dir"}]
    /\ UNCHANGED <<env, app, doc, job, idx, ext, trn, out, redeliveries, rd>>

\* MangaTranslator.process_pdf, lines 453-459 and 488-498: saving the next
\* page (or making the output directory for it) raises inside the loop; the
\* except block copies the input to the output and returns True, or False
\* when the copy raises too.
process_pdf_except(j) ==
    /\ pc[j] = "mi_detect"
    /\ doc[j].pdf
    /\ \/ /\ artifact' = [artifact EXCEPT ![j] = Stored(InputCopy(doc[j]))]
          /\ success' = [success EXCEPT ![j] = TRUE]
       \/ /\ success' = [success EXCEPT ![j] = FALSE]
          /\ UNCHANGED artifact
    /\ hist' = [hist EXCEPT ![j] = Raised(@, "ocr", job[j].progress)]
    /\ pc' = [pc EXCEPT ![j] = "pf_processed"]
    /\ tmp' = [tmp EXCEPT ![j] = @ \ {"pdf_dir"}]
    /\ UNCHANGED <<env, app, doc, job, idx, ext, trn, out, redeliveries, rd>>

\* ------------------------------------------ simplified_main.py, continued
\* process_file, line 255.
process_file_processed(j) ==
    /\ pc[j] = "pf_processed"
    /\ job' = [job EXCEPT ![j].progress = ProcessedProgress]
    /\ pc' = [pc EXCEPT ![j] = "pf_result"]
    /\ UNCHANGED <<env, tmp, app, doc, idx, success, ext, trn, out, artifact, hist,
                   redeliveries, rd>>

\* process_file, lines 260-261 and 264-265: the status is written first.
process_file_status(j) ==
    /\ pc[j] = "pf_result"
    /\ job' = [job EXCEPT ![j].status = IF success[j] THEN "completed" ELSE "failed"]
    /\ pc' = [pc EXCEPT ![j] = IF success[j] THEN "pf_completed" ELSE "pf_failed"]
    /\ UNCHANGED <<env, tmp, app, doc, idx, success, ext, trn, out, artifact, hist,
                   redeliveries, rd>>

\* process_file, line 262.
process_file_progress100(j) ==
    /\ pc[j] = "pf_completed"
    /\ job' = [job EXCEPT ![j].progress = CompletedProgress]
    /\ pc' = [pc EXCEPT ![j] = "done"]
    /\ UNCHANGED <<env, tmp, app, doc, idx, success, ext, trn, out, artifact, hist,
                   redeliveries, rd>>

\* A handler that writes the message to every entry of the jobs table.
process_file_error_EveryJob(j) ==
    /\ pc[j] = "pf_failed"
    /\ job' = [k \in JobIds |-> IF app[k] = "simple"
                                THEN [job[k] EXCEPT !.error = "Processing failed"]
                                ELSE job[k]]
    /\ pc' = [pc EXCEPT ![j] = "done"]
    /\ UNCHANGED <<env, tmp, app, doc, idx, success, ext, trn, out, artifact, hist,
                   redeliveries, rd>>

\* process_file, line 266.
process_file_error(j) ==
    /\ pc[j] = "pf_failed"
    /\ job' = [job EXCEPT ![j].error = "Processing failed"]
    /\ pc' = [pc EXCEPT ![j] = "done"]
    /\ UNCHANGED <<env, tmp, app, doc, idx, success, ext, trn, out, artifact, hist,
                   redeliveries, rd>>

\* An except block that writes the message before the status.
process_file_except_status_ErrorFirst(j) ==
    /\ pc[j] = "pf_except"
    /\ job' = [job EXCEPT ![j].error = "error"]
    /\ pc' = [pc EXCEPT ![j] = "pf_except_error"]
    /\ UNCHANGED <<env, tmp, app, doc, idx, success, ext, trn, out, artifact, hist,
                   redeliveries, rd>>

\* process_file, line 271.
process_file_except_status(j) ==
    /\ pc[j] = "pf_except"
    /\ job' = [job EXCEPT ![j].status = "failed"]
    /\ pc' = [pc EXCEPT ![j] = "pf_except_error"]
    /\ UNCHANGED <<env, tmp, app, doc, idx, success, ext, trn, out, artifact, hist,
                   redeliveries, rd>>

\* process_file, line 272: error = str(e).
process_file_except_error(j) ==
    /\ pc[j] = "pf_except_error"
    /\ \E msg \in ErrTexts : job' = [job EXCEPT ![j].error = msg]
    /\ pc' = [pc EXCEPT ![j] = "done"]
    /\ UNCHANGED <<env, tmp, app, doc, idx, success, ext, trn, out, artifact, hist,
                   redeliveries, rd>>

SimplifiedStep(j) ==
    \/ process_file_start(j)
    \/ process_file_created(j)
    \/ process_file_copy_pdf(j)
    \/ process_file_simple_image(j)
    \/ process_file_raise(j)
    \/ process_pdf_unsupported(j)
    \/ process_pdf_convert(j)
    \/ process_manga_image_begin(j)
    \/ process_manga_image_detect(j)
    \/ process_manga_image_translate(j)
    \/ process_manga_image_overlay(j)
    \/ process_pdf_combine(j)
    \/ process_pdf_except(j)
    \/ process_file_processed(j)
    \/ process_file_status(j)
    \/ process_file_progress100(j)
    \/ process_file_error(j)
    \/ process_file_except_status(j)
    \/ process_file_except_error(j)

\* =============================================================== run_api.py
\* upload_file, lines 63-85: the entry of the jobs table and the thread of
\* simulate_progress.
run_api_upload_file(j, d) ==
    /\ app[j] = "none"
    /\ app' = [app EXCEPT ![j] = "demo"]
    /\ doc' = [doc EXCEPT ![j] = d]
    /\ job' = [job EXCEPT ![j] = [status |-> "queued", progress |-> 0,
                                  error |-> None, result |-> None]]
    /\ pc' = [pc EXCEPT ![j] = "sim_progress"]
    /\ idx' = [idx EXCEPT ![j] = 0]
    /\ UNCHANGED <<env, tmp, success, ext, trn, out, artifact, hist, redeliveries, rd>>

\* update_progress, line 31: range(0, 101, 10).
SimStep == 10
SimLast == 100

\* update_progress, line 32.
update_progress_progress(j) ==
    /\ pc[j] = "sim_progress"
    /\ job' = [job EXCEPT ![j].progress = idx[j]]
    /\ pc' = [pc EXCEPT ![j] = "sim_status"]
    /\ UNCHANGED <<env, tmp, app, doc, idx, success, ext, trn, out, artifact, hist,
                   redeliveries, rd>>

\* update_progress, lines 33-34, and the next turn of the loop.
update_progress_status(j) ==
    /\ pc[j] = "sim_status"
    /\ job' = [job EXCEPT ![j].status = IF idx[j] < SimLast THEN "processing"
                                        ELSE "completed"]
    /\ idx' = [idx EXCEPT ![j] = IF idx[j] < SimLast THEN @ + SimStep ELSE @]
    /\ pc' = [pc EXCEPT ![j] = IF idx[j] < SimLast THEN "sim_progress" ELSE "done"]
    /\ UNCHANGED <<env, tmp, app, doc, success, ext, trn, out, artifact, hist,
                   redeliveries, rd>>

DemoStep(j) ==
    \/ update_progress_progress(j)
    \/ update_progress_status(j)

\* ========================================================== status requests
\* backend/app/main.py get_job_status: one query reads the committed row;
\* the result only for a COMPLETED job with a result path, the error only
\* for a FAILED job.
main_get_job_status(j) ==
    /\ rd.at = "idle"
    /\ app[j] = "celery"
    /\ rd' = [job |-> j, at |-> "done",
              status |-> job[j].status,
              progress |-> job[j].progress,
              result |-> IF job[j].status = "completed" /\ job[j].result # None
                         THEN "url" ELSE None,
              error |-> IF job[j].status = "failed" THEN job[j].error ELSE None]
    /\ UNCHANGED <<env, tmp, app, doc, job, pc, idx, success, ext, trn, out, artifact,
                   hist, redeliveries>>

\* simplified_main.py get_job_status, lines 281-284, and run_api.py
\* get_job_status, lines 90-98: the job dict is looked up.  The handler runs
\* beside the pipeline (a thread-pool thread beside the event loop in
\* simplified_main, the event loop beside the simulator's thread in run_api),
\* so the reads that follow interleave with the pipeline's writes.
get_job_status_begin(j) ==
    /\ rd.at = "idle"
    /\ app[j] \in {"simple", "demo"}
    /\ rd' = [RdIdle EXCEPT !.job = j, !.at = "status"]
    /\ UNCHANGED <<env, tmp, app, doc, job, pc, idx, success, ext, trn, out, artifact,
                   hist, redeliveries>>

\* status=job["status"]
get_job_status_status ==
    /\ rd.at = "status"
    /\ rd' = [rd EXCEPT !.status = job[rd.job].status, !.at = "progress"]
    /\ UNCHANGED <<env, tmp, app, doc, job, pc, idx, success, ext, trn, out, artifact,
                   hist, redeliveries>>

\* progress=job["progress"]
get_job_status_progress ==
    /\ rd.at = "progress"
    /\ rd' = [rd EXCEPT !.progress = job[rd.job].progress, !.at = "result"]
    /\ UNCHANGED <<env, tmp, app, doc, job, pc, idx, success, ext, trn, out, artifact,
                   hist, redeliveries>>

\* simplified_main.py line 290: result_file=job["result_filename"] if
\* job["status"] == "completed" else None; run_api.py lines 107-108: the
\* download URL if job["status"] == "completed".  run_api.py returns here.
get_job_status_result ==
    /\ rd.at = "result"
    /\ rd' = [rd EXCEPT !.result = IF job[rd.job].status = "completed"
                                   THEN "file" ELSE None,
                        !.at = IF app[rd.job] = "simple" THEN "error" ELSE "done"]
    /\ UNCHANGED <<env, tmp, app, doc, job, pc, idx, success, ext, trn, out, artifact,
                   hist, redeliveries>>

\* simplified_main.py line 291: error=job["error"]
get_job_status_error ==
    /\ rd.at = "error"
    /\ rd' = [rd EXCEPT !.error = job[rd.job].error, !.at = "done"]
    /\ UNCHANGED <<env, tmp, app, doc, job, pc, idx, success, ext, trn, out, artifact,
                   hist, redeliveries>>

\* The response has been sent.
get_job_status_return ==
    /\ rd.at = "done"
    /\ rd' = RdIdle
    /\ UNCHANGED <<env, tmp, app, doc, job, pc, idx, success, ext, trn, out, artifact,
                   hist, redeliveries>>

StatusStep ==
    \/ \E j \in JobIds : main_get_job_status(j)
    \/ \E j \in JobIds : get_job_status_begin(j)
    \/ get_job_status_status
    \/ get_job_status_progress
    \/ get_job_status_result
    \/ get_job_status_error
    \/ get_job_status_return

\* ======================================================== download requests
\* backend/app/main.py download_result, lines 106-127: one query reads the
\* row; 400 unless the job is COMPLETED, 404 without a result path, the
\* file (or its URL) otherwise.
main_download_result(j) ==
    /\ rd.at = "idle"
    /\ app[j] = "celery"
    /\ rd' = [RdIdle EXCEPT !.job = j, !.at = "download",
                            !.status = job[j].status,
                            !.result = IF job[j].status = "completed"
                                          /\ job[j].result # None
                                       THEN "file" ELSE None]
    /\ UNCHANGED <<env, tmp, app, doc, job, pc, idx, success, ext, trn, out, artifact,
                   hist, redeliveries>>

\* simplified_main.py download_result, lines 297-314: 400 unless the status
\* is "completed", 404 when there is no file at result_path, the file
\* otherwise.
simplified_download_result(j) ==
    /\ rd.at = "idle"
    /\ app[j] = "simple"
    /\ rd' = [RdIdle EXCEPT !.job = j, !.at = "download",
                            !.status = job[j].status,
                            !.result = IF job[j].status = "completed"
                                          /\ artifact[j].stored
                                       THEN "file" ELSE None]
    /\ UNCHANGED <<env, tmp, app, doc, job, pc, idx, success, ext, trn, out, artifact,
                   hist, redeliveries>>

\* run_api.py download_result, lines 115-122: for every job of the table
\* the placeholder message with the name of the upload; the status is not
\* looked at.
run_api_download_result(j) ==
    /\ rd.at = "idle"
    /\ app[j] = "demo"
    /\ rd' = [RdIdle EXCEPT !.job = j, !.at = "download",
                            !.status = job[j].status,
                            !.result = "placeholder"]
    /\ UNCHANGED <<env, tmp, app, doc, job, pc, idx, success, ext, trn, out, artifact,
                   hist, redeliveries>>

\* The response to the download request has been sent.
download_return ==
    /\ rd.at = "download"
    /\ rd' = RdIdle
    /\ UNCHANGED <<env, tmp, app, doc, job, pc, idx, success, ext, trn, out, artifact,
                   hist, redeliveries>>

DownloadStep ==
    \/ \E j \in JobIds : main_download_result(j)
    \/ \E j \in JobIds : simplified_download_result(j)
    \/ \E j \in JobIds : run_api_download_result(j)
    \/ download_return

\* ======================================================= a task run again
\* The tasks are registered by name (tasks.py lines 17, 86) and take the
\* job id, or the previous task's result, as their argument: a queue
\* consumer that is handed the message of a stage again runs the stage
\* again.  Here the message of ocr_task arrives again for a job whose
\* ocr_task has returned and that has no task running.
redeliver_ocr_task(j) ==
    /\ redeliveries < MaxRedeliver
    /\ app[j] = "celery"
    /\ "ocr" \in hist[j].done
    /\ pc[j] \in {"tr_queued", "rn_queued", "done", "failed"}
    /\ pc' = [pc EXCEPT ![j] = "ocr_queued"]
    /\ redeliveries' = redeliveries + 1
    /\ UNCHANGED <<env, tmp, app, doc, job, idx, success, ext, trn, out, artifact, hist, rd>>

\* The same for the message of translation_task.
redeliver_translation_task(j) ==
    /\ redeliveries < MaxRedeliver
    /\ app[j] = "celery"
    /\ "translate" \in hist[j].done
    /\ pc[j] \in {"rn_queued", "done", "failed"}
    /\ pc' = [pc EXCEPT ![j] = "tr_queued"]
    /\ redeliveries' = redeliveries + 1
    /\ UNCHANGED <<env, tmp, app, doc, job, idx, success, ext, trn, out, artifact, hist, rd>>

\* ======================================================== region detection
Max(a, b) == IF a >= b THEN a ELSE b

Min(a, b) == IF a <= b THEN a ELSE b

Box(x, y, w, h) == [x |-> x, y |-> y, w |-> w, h |-> h]

\* A region of a page: its box, the rectangle the detector found it as, and
\* its text and confidence where the detector gives them.  A text is the
\* sequence of its characters.
Region(box, found, text, conf) ==
    [box |-> box, found |-> found, text |-> text, conf |-> conf]

\* not text.strip()
IsBlank(text) == \A k \in 1..Len(text) : text[k] = " "

\* An image as the detectors see it: its size, whether cv2.imread decodes
\* it, whether it is of one colour, the bounding rectangles
\* cv2.boundingRect gives for the contours cv2.findContours finds in it,
\* and the words pytesseract.image_to_data reports for it.
Image(W, H, decodable, uniform, contours, words) ==
    [W |-> W, H |-> H, decodable |-> decodable, uniform |-> uniform,
     contours |-> contours, words |-> words]

NoImage == Image(0, 0, FALSE, FALSE, <<>>, <<>>)

NoDet == [at |-> "idle", detector |-> "none", image |-> NoImage,
          regions |-> <<>>, i |-> 0, raised |-> FALSE]

\* ------------------------------------------------------ manga_processor.py
\* MangaProcessor.__init__, line 35.
padding == 5

\* detect_text_regions, line 70: w < 20 or h < 20.
MinRegionSide == 20

TooSmall_Both(w, h) == w < MinRegionSide /\ h < MinRegionSide

TooSmall(w, h) == w < MinRegionSide \/ h < MinRegionSide

\* detect_text_regions, line 74: w > img.shape[1] * 0.9 or
\* h > img.shape[0] * 0.9 (the same comparison in integers).
TooLarge(w, h, W, H) == 10 * w > 9 * W \/ 10 * h > 9 * H

PadAndClamp_NoClamp(b, W, H) ==
    LET x == Max(0, b.x - padding)
        y == Max(0, b.y - padding)
    IN  Box(x, y, b.w + 2 * padding, b.h + 2 * padding)

\* detect_text_regions, lines 78-81.
PadAndClamp(b, W, H) ==
    LET x == Max(0, b.x - padding)
        y == Max(0, b.y - padding)
    IN  Box(x, y, Min(W - x, b.w + 2 * padding), Min(H - y, b.h + 2 * padding))

\* detect_text_regions, lines 65-86: the loop over the contours.
RECURSIVE FilterContours(_, _, _)
FilterContours(contours, W, H) ==
    IF contours = <<>> THEN <<>>
    ELSE LET b == Head(contours)
             rest == FilterContours(Tail(contours), W, H)
         IN  IF TooSmall(b.w, b.h) \/ TooLarge(b.w, b.h, W, H) THEN rest
             ELSE <<Region(PadAndClamp(b, W, H), b, <<>>, 0)>> \o rest

\* MangaProcessor.detect_text_regions, lines 44-101: ValueError when the
\* image does not decode, otherwise the list of regions.
detect_text_regions ==
    /\ det.at = "input"
    /\ det.detector = "contours"
    /\ det' = IF det.image.decodable
              THEN [det EXCEPT !.at = "done",
                               !.regions = FilterContours(det.image.contours,
                                                          det.image.W, det.image.H)]
              ELSE [det EXCEPT !.at = "done", !.raised = TRUE]
    /\ UNCHANGED <<jobvars, lay, ocr, fnt>>

\* -------------------------------------- backend/app/enhanced_processing.py
\* detect_text_regions_with_tesseract, lines 129-138: the words with
\* confidence above 40 and a text that is not blank.
RECURSIVE ConfidentWords(_)
ConfidentWords(words) ==
    IF words = <<>> THEN <<>>
    ELSE LET w == Head(words)
             rest == ConfidentWords(Tail(words))
         IN  IF w.conf > 40 /\ ~IsBlank(w.text)
             THEN <<Region(w.box, w.box, w.text, w.conf)>> \o rest
             ELSE rest

\* MangaTranslator.detect_text_regions_with_tesseract, lines 92-149: the
\* confident words of the image; with none of them (also when the image does
\* not decode, line 111, or tesseract raises) the simulated regions.
detect_text_regions_with_tesseract ==
    /\ det.at = "input"
    /\ det.detector = "tesseract"
    /\ LET regions == IF det.image.decodable
                      THEN ConfidentWords(det.image.words) ELSE <<>>
       IN  det' = IF regions # <<>>
                  THEN [det EXCEPT !.at = "done", !.regions = regions]
                  ELSE [det EXCEPT !.at = "simulate", !.i = 0]
    /\ UNCHANGED <<jobvars, lay, ocr, fnt>>

\* _simulate_text_regions, line 151: num_regions=3.
num_regions == 3

\* _simulate_text_regions, line 177: the confidence of a simulated region.
SimulatedConf == 80

\* _simulate_text_regions, lines 156-183: one turn of the loop.
\* random.randint(a, b) is any of a..b and raises ValueError when a > b;
\* img.shape raises when the image did not decode; the except block
\* returns [].
simulate_text_regions ==
    /\ det.at = "simulate"
    /\ det.i < num_regions
    /\ LET W == det.image.W
           H == det.image.H
           failed == [det EXCEPT !.at = "done", !.regions = <<>>]
       IN  IF ~det.image.decodable THEN det' = failed
           ELSE \E region_width \in (W \div 6)..(W \div 3),
                   region_height \in (H \div 10)..(H \div 5) :
                   IF W - region_width - 10 < 10 \/ H - region_height - 10 < 10
                   THEN det' = failed
                   ELSE \E x \in 10..(W - region_width - 10),
                           y \in 10..(H - region_height - 10) :
                           LET box == Box(x, y, region_width, region_height)
                           IN  det' = [det EXCEPT
                                         !.regions = Append(@, Region(box, box,
                                                        <<"T">>, SimulatedConf)),
                                         !.i = @ + 1]
    /\ UNCHANGED <<jobvars, lay, ocr, fnt>>

\* _simulate_text_regions, line 180: return regions.
simulate_text_regions_return ==
    /\ det.at = "simulate"
    /\ det.i = num_regions
    /\ det' = [det EXCEPT !.at = "done"]
    /\ UNCHANGED <<jobvars, lay, ocr, fnt>>

\* ================================================================= layout
\* A text is the string as the renderer gets it: whether it is "", and the
\* words text.split() gives, each word as the width the font gives it.
Text(is_empty, words) == [is_empty |-> is_empty, words |-> words]

NoLay == [at |-> "idle", renderer |-> "none", page |-> "white",
          box |-> Box(0, 0, 0, 0), text |-> Text(TRUE, <<>>), font_height |-> 0,
          filled |-> FALSE, drawn |-> <<>>, lines |-> <<>>, line_idx |-> 0]

\* The width the font gives a space.
SpaceWidth == 1

RECURSIVE SumWidths(_)
SumWidths(line) == IF line = <<>> THEN 0 ELSE Head(line) + SumWidths(Tail(line))

\* draw.textlength(' '.join(line), font=font)
TextLength(line) ==
    IF line = <<>> THEN 0 ELSE SumWidths(line) + SpaceWidth * (Len(line) - 1)

\* A line that was drawn: draw.text((x, top), ' '.join(line)).
Drawn(top, line) == [top |-> top, line |-> line]

\* ------------------------------------ backend/app/services/rendering.py
Fits_IgnoringSpaces(line, width) == SumWidths(line) <= width

\* _draw_text_with_wrapping, lines 108-111: text_width <= width.
Fits(line, width) == TextLength(line) <= width

\* The last word of the line is put at the end of the next line.
MoveLastWord_ToEnd(lines, line_idx) ==
    LET line == lines[line_idx]
        last_word == line[Len(line)]
        popped == [lines EXCEPT ![line_idx] = SubSeq(line, 1, Len(line) - 1)]
        grown == IF line_idx + 1 > Len(popped) THEN Append(popped, <<>>) ELSE popped
    IN  [grown EXCEPT ![line_idx + 1] = Append(@, last_word)]

\* _draw_text_with_wrapping, lines 125-128: lines[line_idx].pop(), a new
\* line when there is none after it, lines[line_idx + 1].insert(0, last_word).
MoveLastWord(lines, line_idx) ==
    LET line == lines[line_idx]
        last_word == line[Len(line)]
        popped == [lines EXCEPT ![line_idx] = SubSeq(line, 1, Len(line) - 1)]
        grown == IF line_idx + 1 > Len(popped) THEN Append(popped, <<>>) ELSE popped
    IN  [grown EXCEPT ![line_idx + 1] = <<last_word>> \o @]

\* _draw_text_with_wrapping, lines 106-128: the while loop; line_idx counts
\* from 1 here.  A line that fits, or has one word, is left; otherwise its
\* last word moves to the front of the next line.
RECURSIVE WrapLoop(_, _, _)
WrapLoop(lines, line_idx, width) ==
    IF line_idx > Len(lines) THEN lines
    ELSE IF Fits(lines[line_idx], width) \/ Len(lines[line_idx]) = 1
         THEN WrapLoop(lines, line_idx + 1, width)
         ELSE WrapLoop(MoveLastWord(lines, line_idx), line_idx, width)

\* The loop of lines 106-128 turn by turn.  draw.textlength is the font's
\* answer: here any width, one that fits the box or one that does not.
TextWidths(width) == {width, width + 1}

\* A turn that takes the last word of a line of one word as well.
WrapTurn_PopSingle(lines, line_idx, text_width, width) ==
    IF text_width <= width \/ lines[line_idx] = <<>>
    THEN [lines |-> lines, line_idx |-> line_idx + 1]
    ELSE [lines |-> MoveLastWord(lines, line_idx), line_idx |-> line_idx]

\* _draw_text_with_wrapping, lines 108-128: one turn of the while loop, for
\* the width text_width of the line: lines and line_idx after it.
WrapTurn(lines, line_idx, text_width, width) ==
    IF text_width <= width
    THEN [lines |-> lines, line_idx |-> line_idx + 1]
    ELSE IF Len(lines[line_idx]) = 1
         THEN [lines |-> lines, line_idx |-> line_idx + 1]
         ELSE [lines |-> MoveLastWord(lines, line_idx), line_idx |-> line_idx]

\* _draw_text_with_wrapping, lines 96-102: the words; no word, no line.
wrap_begin ==
    /\ lay.at = "input"
    /\ lay.renderer = "service"
    /\ lay' = IF lay.text.words = <<>> THEN [lay EXCEPT !.at = "wrapped"]
              ELSE [lay EXCEPT !.at = "wrapping", !.lines = <<lay.text.words>>,
                               !.line_idx = 1]
    /\ UNCHANGED <<jobvars, det, ocr, fnt>>

\* _draw_text_with_wrapping, lines 106-128: a turn of the loop.
wrap_turn ==
    /\ lay.at = "wrapping"
    /\ lay.line_idx <= Len(lay.lines)
    /\ \E text_width \in TextWidths(lay.box.w) :
          LET after == WrapTurn(lay.lines, lay.line_idx, text_width, lay.box.w)
          IN  lay' = [lay EXCEPT !.lines = after.lines, !.line_idx = after.line_idx]
    /\ UNCHANGED <<jobvars, det, ocr, fnt>>

\* _draw_text_with_wrapping, line 106: line_idx < len(lines) is false and
\* the loop is left.
wrap_end ==
    /\ lay.at = "wrapping"
    /\ lay.line_idx > Len(lay.lines)
    /\ lay' = [lay EXCEPT !.at = "wrapped"]
    /\ UNCHANGED <<jobvars, det, ocr, fnt>>

\* Whether the loop that draws stops after a line: y_pos > y + height.
OutOfSpace_Never(y_pos, bottom) == FALSE

OutOfSpace(y_pos, bottom) == y_pos > bottom

\* _draw_text_with_wrapping, lines 131-141: the lines are drawn from y_pos
\* down; the loop stops after the line that takes y_pos below the box.
RECURSIVE DrawLines(_, _, _, _)
DrawLines(lines, y_pos, bottom, line_height) ==
    IF lines = <<>> THEN <<>>
    ELSE <<Drawn(y_pos, Head(lines))>>
         \o (IF OutOfSpace(y_pos + line_height, bottom) THEN <<>>
             ELSE DrawLines(Tail(lines), y_pos + line_height, bottom, line_height))

\* A drawing that leaves out the first line of a text of several lines.
service_draw_text_with_wrapping_SkipFirst(words, box, line_height) ==
    IF words = <<>> THEN <<>>
    ELSE LET lines == WrapLoop(<<words>>, 1, box.w)
         IN  DrawLines(IF Len(lines) > 1 THEN Tail(lines) ELSE lines,
                       box.y, box.y + box.h, line_height)

\* RenderingService._draw_text_with_wrapping, lines 90-141.
service_draw_text_with_wrapping(words, box, line_height) ==
    IF words = <<>> THEN <<>>
    ELSE DrawLines(WrapLoop(<<words>>, 1, box.w), box.y, box.y + box.h, line_height)

\* RenderingService.render_text_on_image, lines 32-52, for one region: the
\* background rectangle, then the text.  The line height is
\* font.getbbox("Ay")[3].
render_text_on_image ==
    /\ lay.at = "input"
    /\ lay.renderer = "service"
    /\ lay' = [lay EXCEPT !.at = "done", !.filled = TRUE,
                          !.drawn = service_draw_text_with_wrapping(
                                        lay.text.words, lay.box, lay.font_height)]
    /\ UNCHANGED <<jobvars, det, ocr, fnt>>

\* ------------------------------------------------------ manga_processor.py
\* _draw_text_with_wrapping, line 257: font.getbbox("A")[3] + 2.
LineSpacing == 2

\* _draw_text_with_wrapping, lines 244-266: the loop over words[1:] with
\* current_line and y_offset, and the last line after it.
RECURSIVE WrapAndDraw(_, _, _, _, _)
WrapAndDraw(words, current_line, y_offset, box, line_height) ==
    IF words = <<>>
    THEN (IF y_offset <= box.h THEN <<Drawn(box.y + y_offset, current_line)>>
          ELSE <<>>)
    ELSE LET test_line == Append(current_line, Head(words))
         IN  IF TextLength(test_line) <= box.w
             THEN WrapAndDraw(Tail(words), test_line, y_offset, box, line_height)
             ELSE <<Drawn(box.y + y_offset, current_line)>>
                  \o (IF y_offset + line_height > box.h THEN <<>>
                      ELSE WrapAndDraw(Tail(words), <<Head(words)>>,
                                       y_offset + line_height, box, line_height))

\* MangaProcessor._draw_text_with_wrapping, lines 233-266.
processor_draw_text_with_wrapping(words, box, font_height) ==
    IF words = <<>> THEN <<>>
    ELSE WrapAndDraw(Tail(words), <<Head(words)>>, 0, box, font_height + LineSpacing)

\* MangaProcessor.render_translated_image, lines 185-209, for one region: a
\* region with the translation "" is skipped; otherwise the background
\* rectangle, then the text.
render_translated_image ==
    /\ lay.at = "input"
    /\ lay.renderer = "processor"
    /\ lay' = IF lay.text.is_empty THEN [lay EXCEPT !.at = "done"]
              ELSE [lay EXCEPT !.at = "done", !.filled = TRUE,
                               !.drawn = processor_draw_text_with_wrapping(
                                             lay.text.words, lay.box, lay.font_height)]
    /\ UNCHANGED <<jobvars, det, ocr, fnt>>

\* -------------------------------------- backend/app/enhanced_processing.py
\* overlay_translated_text, line 324: width < 20 or height < 10.
MinOverlayWidth == 20

MinOverlayHeight == 10

\* overlay_translated_text, line 341: draw.text((x + 5, y + 5), ...).
OverlayMargin == 5

\* MangaTranslator.overlay_translated_text, lines 318-341, for one region: a
\* region narrower than 20 or lower than 10 is skipped; otherwise the
\* background rectangle, then the text on one line.
overlay_translated_text ==
    /\ lay.at = "input"
    /\ lay.renderer = "overlay"
    /\ lay' = IF lay.box.w < MinOverlayWidth \/ lay.box.h < MinOverlayHeight
              THEN [lay EXCEPT !.at = "done"]
              ELSE [lay EXCEPT !.at = "done", !.filled = TRUE,
                               !.drawn = IF lay.text.words = <<>> THEN <<>>
                                         ELSE <<Drawn(lay.box.y + OverlayMargin,
                                                      lay.text.words)>>]
    /\ UNCHANGED <<jobvars, det, ocr, fnt>>

\* ------------------------------------------------------------- the pixels
\* The pixels of the page.
Pixels == (0..(LayoutSide - 1)) \X (0..(LayoutSide - 1))

\* draw.rectangle([x, y, x + w, y + h], fill=(255, 255, 255)): PIL fills
\* the rectangle with both corner points included.
FillPixels(box) ==
    {px \in Pixels : /\ box.x <= px[1] /\ px[1] <= box.x + box.w
                     /\ box.y <= px[2] /\ px[2] <= box.y + box.h}

\* draw.text((x, top), line): the pixels of the line, from x to the right
\* over the line's width and from top down over the font's height.
LinePixels(box, d, font_height) ==
    {px \in Pixels : /\ box.x <= px[1] /\ px[1] < box.x + TextLength(d.line)
                     /\ d.top <= px[2] /\ px[2] < d.top + font_height}

\* The page after the rendering.
OutputPixel(px) ==
    IF \E k \in 1..Len(lay.drawn) : px \in LinePixels(lay.box, lay.drawn[k], lay.font_height)
    THEN "black"
    ELSE IF lay.filled /\ px \in FillPixels(lay.box) THEN "white"
    ELSE lay.page

\* ============================================================= extraction
\* What tesseract reads in a region: the text (the sequence of its
\* characters) and the confidence of the reading.
Reading(text, conf) == [text |-> text, conf |-> conf]

NoOcr == [at |-> "idle", extractor |-> "none", readings |-> <<>>, passed |-> <<>>,
          translated |-> <<>>]

\* ---------------------------------------- backend/app/services/ocr.py
\* OCRService.process_image, line 39: int(data['conf'][i]) < 20.
ServiceMinConfidence == 20

\* OCRService.process_image, lines 37-58: the readings that are kept.
RECURSIVE process_image_results(_)
process_image_results(readings) ==
    IF readings = <<>> THEN <<>>
    ELSE LET r == Head(readings)
             rest == process_image_results(Tail(readings))
         IN  IF r.conf < ServiceMinConfidence \/ IsBlank(r.text) THEN rest
             ELSE <<r>> \o rest

\* OCRService.process_image: its results go to
\* TranslationService.translate_ocr_results, which translates every item
\* (translation.py lines 37-43), and on to the renderer.
process_image ==
    /\ ocr.at = "input"
    /\ ocr.extractor = "service"
    /\ ocr' = [ocr EXCEPT !.at = "done",
                          !.passed = process_image_results(ocr.readings)]
    /\ UNCHANGED <<jobvars, det, lay, fnt>>

\* -------------------------------- backend/app/services/translation.py
\* TranslationService.translate_text, lines 11-32: what the model gives for
\* a text; a text of the target language, never the text it was given.
Translation(text) == <<"en">> \o text

\* The results with the items the other way round.
translated_results_Reversed(ocr_results) ==
    [i \in 1..Len(ocr_results) |->
        LET item == ocr_results[Len(ocr_results) + 1 - i]
        IN  [item EXCEPT !.text = Translation(item.text)]]

\* translate_ocr_results, lines 37-50: texts, translated_texts and
\* translated_results are built by index over ocr_results; new_item is
\* item.copy() with its 'text' replaced.
translated_results(ocr_results) ==
    [i \in 1..Len(ocr_results) |->
        [ocr_results[i] EXCEPT !.text = Translation(ocr_results[i].text)]]

\* TranslationService.translate_ocr_results, lines 34-52, on the results of
\* process_image (tasks.py lines 112-114): the list of the copies is
\* returned and ocr_results, whose items were only read and copied, is as
\* it was; or translate_text raises and nothing is returned.
translate_ocr_results ==
    /\ ocr.at = "done"
    /\ ocr.extractor = "service"
    /\ \/ ocr' = [ocr EXCEPT !.at = "translated",
                             !.translated = translated_results(ocr.passed)]
       \/ ocr' = [ocr EXCEPT !.at = "raised"]
    /\ UNCHANGED <<jobvars, det, lay, fnt>>

\* ------------------------------------------------------ manga_processor.py
\* MangaProcessor.__init__, line 34.
min_confidence == 40

\* The text without its leading spaces and with one space for every run of
\* them.
RECURSIVE Collapse(_, _)
Collapse(text, after_space) ==
    IF text = <<>> THEN <<>>
    ELSE IF Head(text) = " "
         THEN (IF after_space THEN <<>> ELSE <<" ">>) \o Collapse(Tail(text), TRUE)
         ELSE <<Head(text)>> \o Collapse(Tail(text), FALSE)

\* perform_ocr, line 125: ' '.join(text.strip().split())
CleanText(text) ==
    LET c == Collapse(text, TRUE)
    IN  IF c # <<>> /\ c[Len(c)] = " " THEN SubSeq(c, 1, Len(c) - 1) ELSE c

\* perform_ocr, lines 116-133: pytesseract.image_to_string gives the text of
\* each region (no confidence is asked for); the regions with a text that
\* is not blank are kept.
RECURSIVE perform_ocr_regions(_)
perform_ocr_regions(readings) ==
    IF readings = <<>> THEN <<>>
    ELSE LET r == Reading(CleanText(Head(readings).text), Head(readings).conf)
             rest == perform_ocr_regions(Tail(readings))
         IN  IF IsBlank(r.text) THEN rest ELSE <<r>> \o rest

\* MangaProcessor.perform_ocr: its regions go to translate_text, which
\* translates every region with a text (lines 149-160), and on to
\* render_translated_image.
perform_ocr ==
    /\ ocr.at = "input"
    /\ ocr.extractor = "processor"
    /\ ocr' = [ocr EXCEPT !.at = "done",
                          !.passed = perform_ocr_regions(ocr.readings)]
    /\ UNCHANGED <<jobvars, det, lay, fnt>>

\* ============================================================== font size
NoFnt == [at |-> "idle", estimator |-> "none", width |-> 0, height |-> 0,
          text_length |-> 0, size |-> 0]

\* The largest power of two below n (1 for n <= 2), from p up.
RECURSIVE PowerOfTwoBelow(_, _)
PowerOfTwoBelow(n, p) == IF 2 * p < n THEN PowerOfTwoBelow(n, 2 * p) ELSE p

\* int(height * 0.7) in the double arithmetic of the program.  The double
\* 0.7 is 0.7 - 0.4 * 2^-53, so the product is below 7 * height / 10 by
\* 0.4 * height * 2^-53.  That matters only where 7 * height / 10 is a whole
\* number n: the product is then rounded to n, or, when the deficit is more
\* than half the spacing 2^(k-52) of the doubles below n (2^k the largest
\* power of two below n), to the double below n, and int() gives n - 1.
IntOfTimes07(height) ==
    LET n == (7 * height) \div 10
    IN  IF (7 * height) % 10 # 0 \/ height = 0 THEN n
        ELSE IF 2 * height > 5 * PowerOfTwoBelow(n, 1) THEN n - 1 ELSE n

\* ---------------------------------------- backend/app/services/ocr.py
\* OCRService._estimate_font_size, line 136: max(int(height * 0.7), 10).
ocr_estimate_font_size(height) == Max(IntOfTimes07(height), 10)

estimate_font_size_ocr ==
    /\ fnt.at = "input"
    /\ fnt.estimator = "ocr"
    /\ fnt' = [fnt EXCEPT !.at = "done", !.size = ocr_estimate_font_size(fnt.height)]
    /\ UNCHANGED <<jobvars, det, lay, ocr>>

\* -------------------------------------- backend/app/enhanced_processing.py
\* overlay_translated_text, line 328: max(int(height * 0.7), 12).
adapted_font_size(height) == Max(IntOfTimes07(height), 12)

estimate_font_size_overlay ==
    /\ fnt.at = "input"
    /\ fnt.estimator = "overlay"
    /\ fnt' = [fnt EXCEPT !.at = "done", !.size = adapted_font_size(fnt.height)]
    /\ UNCHANGED <<jobvars, det, lay, ocr>>

\* ------------------------------------------------------ manga_processor.py
\* _estimate_font_size, line 231: max(10, min(base_size, 36)).
ClampFontSize(base_size) == Max(10, Min(base_size, 36))

\* MangaProcessor._estimate_font_size, lines 216-231.  base_size is
\* int(min(width, height) / 8), exact in doubles; for a text of length
\* L > 0 it becomes int(base_size * (1.0 / (0.5 + 0.5 * (L / 20)))), which
\* is 40 * base_size / (20 + L) rounded down, or one less where that
\* quotient is whole and the doubles fall short of it.
estimate_font_size_processor ==
    /\ fnt.at = "input"
    /\ fnt.estimator = "processor"
    /\ LET base_size == Min(fnt.width, fnt.height) \div 8
           q == (40 * base_size) \div (20 + fnt.text_length)
           whole == (40 * base_size) % (20 + fnt.text_length) = 0
       IN  \E adjusted \in (IF fnt.text_length = 0 THEN {base_size}
                            ELSE IF whole /\ q > 0 THEN {q - 1, q} ELSE {q}) :
              fnt' = [fnt EXCEPT !.at = "done", !.size = ClampFontSize(adjusted)]
    /\ UNCHANGED <<jobvars, det, lay, ocr>>

\* ========================================================= specifications
\* One job at a time is uploaded.
NoOtherJob == \A k \in JobIds : app[k] = "none"

\* The response to an upload that created job j: 200 with the job id.
Accepted(j, d) == [code |-> 200, job |-> j, doc |-> d]

Upload(j) ==
    /\ NoOtherJob
    /\ \E d \in Docs :
          /\ \/ main_upload_file(j, d)
             \/ simplified_upload_file(j, d)
             \/ run_api_upload_file(j, d)
          /\ resp' = Accepted(j, d)

\* A step of a pipeline or of a status request.
Step ==
    /\ \/ \E j \in JobIds : CeleryStep(j)
       \/ \E j \in JobIds : SimplifiedStep(j)
       \/ \E j \in JobIds : DemoStep(j)
       \/ StatusStep
    /\ UNCHANGED resp

\* No call of a component on its own is under way.
NoCalls == det = NoDet /\ lay = NoLay /\ ocr = NoOcr /\ fnt = NoFnt

Init == InitJobs /\ NoCalls

Next ==
    /\ \/ \E j \in JobIds : Upload(j)
       \/ Step
    /\ UNCHANGED <<det, lay, ocr, fnt>>

\* The three servers, each stage of a job run once, and status requests;
\* the uploads are files that decode, with the default languages.
Spec == Init /\ [][Next]_vars

Redeliver ==
    /\ \E j \in JobIds : redeliver_ocr_task(j) \/ redeliver_translation_task(j)
    /\ UNCHANGED <<resp, det, lay, ocr, fnt>>

\* The same, with the message of a stage delivered a second time.
SpecRedeliver == Init /\ [][Next \/ Redeliver]_vars

Download == DownloadStep /\ UNCHANGED <<resp, det, lay, ocr, fnt>>

\* The three servers with status requests and download requests.
SpecDownload == Init /\ [][Next \/ Download]_vars

\* ------------------------------------------------------------ submission
\* A language name that is in no table of the program.
UnknownLanguage == "Klingon"

\* The uploads of any kind: files that decode or not, and language names
\* that are registered or not.
Requests ==
    {[d EXCEPT !.decodable = ok, !.source = s, !.target = t] :
        d \in Docs, ok \in BOOLEAN,
        s \in {DEFAULT_SOURCE_LANGUAGE, UnknownLanguage},
        t \in {DEFAULT_TARGET_LANGUAGE, UnknownLanguage}}

Submit(j) ==
    /\ NoOtherJob
    /\ \E d \in Requests :
          /\ \/ main_upload_file(j, d)
             \/ simplified_upload_file(j, d)
             \/ run_api_upload_file(j, d)
          /\ resp' = Accepted(j, d)

Reject ==
    /\ NoOtherJob
    /\ \E d \in Requests : simplified_upload_reject(d)

NextSubmit ==
    /\ \/ \E j \in JobIds : Submit(j)
       \/ Reject
       \/ Step
    /\ UNCHANGED <<det, lay, ocr, fnt>>

\* The three servers with uploads of any kind.
SpecSubmit == Init /\ [][NextSubmit]_vars

\* ------------------------------------------------------------ concurrency
\* The uploads of the jobs that run side by side: an image, a PDF.
ConcurrentDocs == {File(FALSE, 1), File(TRUE, 1)}

\* An upload while the jobs uploaded before are under way.  The job ids
\* are uuid4 values, so which of them names the first job does not matter:
\* j1 is uploaded first.
UploadBeside(j) ==
    /\ j = "j2" => app["j1"] # "none"
    /\ \E d \in ConcurrentDocs :
       /\ \/ main_upload_file(j, d)
          \/ simplified_upload_file(j, d)
          \/ run_api_upload_file(j, d)
       /\ resp' = Accepted(j, d)

\* A step of the pipeline of one of the jobs.
PipelineStep ==
    /\ \/ \E j \in JobIds : CeleryStep(j)
       \/ \E j \in JobIds : SimplifiedStep(j)
       \/ \E j \in JobIds : DemoStep(j)
    /\ UNCHANGED <<rd, resp>>

NextConcurrent ==
    /\ \/ \E j \in JobIds : UploadBeside(j)
       \/ PipelineStep
    /\ UNCHANGED <<det, lay, ocr, fnt>>

\* The three servers with the pipelines of several jobs interleaved step by
\* step.
SpecConcurrent == Init /\ [][NextConcurrent]_vars

\* --------------------------------------------------------------- progress
\* A step of the pipeline of job j.
JobStep(j) ==
    /\ \/ CeleryStep(j)
       \/ SimplifiedStep(j)
       \/ DemoStep(j)
    /\ UNCHANGED <<rd, resp, det, lay, ocr, fnt>>

\* The jobs side by side, each with a worker that goes on: the task that is
\* queued is run by a Celery worker, the coroutine process_file by the event
\* loop, update_progress by its thread, and a call that was made returns or
\* raises.
SpecLive == SpecConcurrent /\ \A j \in JobIds : WF_vars(JobStep(j))

\* The rectangles of a side from lo, of every length that fits.
Spans(side, los) ==
    {sp \in [lo : los, len : 1..side] : sp.lo + sp.len <= side}

\* The bounding rectangles a contour of a W x H image can have: every
\* position and width, and the heights at the top edge, within and beyond
\* the padding from it, and down to the bottom edge.
ContourRects(W, H) ==
    {Box(sx.lo, sy.lo, sx.len, sy.len) :
        sx \in Spans(W, 0..(W - 1)),
        sy \in Spans(H, {0, padding - 2, padding, padding + 2, H - MinRegionSide})}

\* The images given to MangaProcessor.detect_text_regions: one that does
\* not decode, the light and the dark image of one colour (no contour, and
\* the whole image as the one contour), and the images with no or one
\* contour.
ContourImages ==
    {NoImage,
     Image(MaxSide, MaxSide, TRUE, TRUE, <<>>, <<>>),
     Image(MaxSide, MaxSide, TRUE, TRUE, <<Box(0, 0, MaxSide, MaxSide)>>, <<>>),
     Image(MaxSide, MaxSide, TRUE, FALSE, <<>>, <<>>)}
    \cup {Image(MaxSide, MaxSide, TRUE, FALSE, <<b>>, <<>>) :
            b \in ContourRects(MaxSide, MaxSide)}

\* What pytesseract reports for a word.
Words ==
    {[text |-> t, conf |-> c, box |-> Box(2, 3, 10, 8)] :
        t \in {<<>>, <<" ">>, <<"a">>}, c \in {40, 41}}

\* The images given to MangaTranslator.detect_text_regions_with_tesseract:
\* one that does not decode, images of one colour (no word), and images with
\* no or one word.
WordImages ==
    {NoImage}
    \cup {Image(W, H, TRUE, TRUE, <<>>, <<>>) :
            W \in {MaxSide \div 2, MaxSide - 8}, H \in {MaxSide \div 2, MaxSide - 8}}
    \cup {Image(MaxSide - 8, MaxSide - 8, TRUE, FALSE, <<>>, ws) :
            ws \in {<<>>} \cup {<<w>> : w \in Words}}

InitDetect ==
    /\ JobsIdle
    /\ lay = NoLay /\ ocr = NoOcr /\ fnt = NoFnt
    /\ \/ \E img \in ContourImages :
             det = [NoDet EXCEPT !.at = "input", !.detector = "contours",
                                 !.image = img]
       \/ \E img \in WordImages :
             det = [NoDet EXCEPT !.at = "input", !.detector = "tesseract",
                                 !.image = img]

NextDetect ==
    \/ detect_text_regions
    \/ detect_text_regions_with_tesseract
    \/ simulate_text_regions
    \/ simulate_text_regions_return

\* The two detectors, each on one image.
SpecDetect == InitDetect /\ [][NextDetect]_vars

\* ----------------------------------------------------------------- layout
\* The widths of a short and of a long word.
WordWidths == {1, 4}

\* The words of a text, up to MaxWords of them.
WordSeqs == UNION {[1..n -> WordWidths] : n \in 0..MaxWords}

Texts == {Text(TRUE, <<>>)} \cup {Text(FALSE, ws) : ws \in WordSeqs}

\* The boxes of the regions of a page: inside the page, w >= 1 and h >= 1.
LayoutBoxes ==
    {Box(sx.lo, sy.lo, sx.len, sy.len) :
        sx \in Spans(LayoutSide, 0..(LayoutSide - 1)),
        sy \in Spans(LayoutSide, 0..(LayoutSide - 1))}

\* font.getbbox(...)[3] of the fonts.
FontHeights == {1, 2}

InitLayout ==
    /\ JobsIdle
    /\ det = NoDet /\ ocr = NoOcr /\ fnt = NoFnt
    /\ \E r \in {"service", "processor"}, c \in {"white", "grey"}, b \in LayoutBoxes,
          t \in Texts, fh \in FontHeights :
          lay = [NoLay EXCEPT !.at = "input", !.renderer = r, !.page = c, !.box = b,
                              !.text = t, !.font_height = fh]

NextLayout ==
    \/ render_text_on_image
    \/ render_translated_image

\* The two renderers, each on one region of a page.
SpecLayout == InitLayout /\ [][NextLayout]_vars

\* --------------------------------------------------------------- wrapping
InitWrap ==
    /\ JobsIdle
    /\ det = NoDet /\ ocr = NoOcr /\ fnt = NoFnt
    /\ \E w \in 1..LayoutSide, t \in Texts, fh \in FontHeights :
          lay = [NoLay EXCEPT !.at = "input", !.renderer = "service",
                              !.box = Box(0, 0, w, LayoutSide), !.text = t,
                              !.font_height = fh]

NextWrap ==
    \/ wrap_begin
    \/ wrap_turn
    \/ wrap_end

\* The wrapping loop of RenderingService turn by turn, with a processor that
\* goes on executing it.
SpecWrap == InitWrap /\ [][NextWrap]_vars /\ WF_vars(NextWrap)

\* ----------------------------------------------------------- small regions
\* The boxes at the corner of the page, just below and at the sizes below
\* which overlay_translated_text skips a region.
SmallBoxes ==
    {Box(0, 0, w, h) : w \in {MinOverlayWidth - 1, MinOverlayWidth},
                       h \in {MinOverlayHeight - 1, MinOverlayHeight}}

InitSmall ==
    /\ JobsIdle
    /\ det = NoDet /\ ocr = NoOcr /\ fnt = NoFnt
    /\ \E r \in {"service", "processor", "overlay"}, c \in {"white", "grey"},
          b \in SmallBoxes, t \in Texts, fh \in FontHeights :
          lay = [NoLay EXCEPT !.at = "input", !.renderer = r, !.page = c, !.box = b,
                              !.text = t, !.font_height = fh]

NextSmall ==
    \/ render_text_on_image
    \/ render_translated_image
    \/ overlay_translated_text

\* The three renderers, each on one region around the minimal size.
SpecSmall == InitSmall /\ [][NextSmall]_vars

\* ------------------------------------------------------------- extraction
\* The readings of a region: no text, a blank text, a text, a text after a
\* space; a confidence below and at each extractor's minimum.
Readings ==
    {Reading(t, c) : t \in {<<>>, <<" ">>, <<"a">>, <<" ", "a">>},
                     c \in {ServiceMinConfidence - 1, ServiceMinConfidence,
                            min_confidence - 1, min_confidence}}

ReadingSeqs == UNION {[1..n -> Readings] : n \in 0..MaxReadings}

InitExtract ==
    /\ JobsIdle
    /\ det = NoDet /\ lay = NoLay /\ fnt = NoFnt
    /\ \E e \in {"service", "processor"}, rs \in ReadingSeqs :
          ocr = [NoOcr EXCEPT !.at = "input", !.extractor = e, !.readings = rs]

NextExtract ==
    \/ process_image
    \/ perform_ocr

\* The two extractors, each on the regions of one page.
SpecExtract == InitExtract /\ [][NextExtract]_vars

\* ------------------------------------------------------------ translation
NextTranslate ==
    \/ process_image
    \/ perform_ocr
    \/ translate_ocr_results

\* The extractors, and the translation of what the service extracted.
SpecTranslate == InitExtract /\ [][NextTranslate]_vars

\* -------------------------------------------------------------- font size
\* The sides of the regions given to MangaProcessor._estimate_font_size.
RegionSides == {0, 1, MinRegionSide, MaxHeight, 3 * MaxHeight}

InitFont ==
    /\ JobsIdle
    /\ det = NoDet /\ lay = NoLay /\ ocr = NoOcr
    /\ \/ \E e \in {"ocr", "overlay"}, h \in 0..MaxHeight :
             fnt = [NoFnt EXCEPT !.at = "input", !.estimator = e, !.height = h]
       \/ \E w \in RegionSides, h \in RegionSides, n \in 0..MaxTextLength :
             fnt = [NoFnt EXCEPT !.at = "input", !.estimator = "processor",
                                 !.width = w, !.height = h, !.text_length = n]

NextFont ==
    \/ estimate_font_size_ocr
    \/ estimate_font_size_overlay
    \/ estimate_font_size_processor

\* The three estimators of the font size, each on one region.
SpecFont == InitFont /\ [][NextFont]_vars

\* ================================================================== claims
\* The pipeline handler of the job has returned.
Finished(j) == pc[j] \in {"done", "failed"}

Pages(j) == 1..doc[j].n

\* What a status response gives as the job's result reference.
ResultRef(j) ==
    IF app[j] = "celery"
    THEN (IF job[j].status = "completed" THEN job[j].result ELSE None)
    ELSE (IF job[j].status = "completed" THEN "file" ELSE None)

\* The task a control point of the chain is in, from its message being
\* queued to its return.
TaskOf(p) ==
    CASE p \in {"ocr_queued", "ocr_get", "ocr_pages", "ocr_save", "ocr_commit"} -> "ocr"
      [] p \in {"tr_queued", "tr_run", "tr_commit"} -> "translate"
      [] p \in {"rn_queued", "rn_run", "rn_combine", "rn_store", "rn_commit", "rn_url"}
           -> "render"
      [] OTHER -> "none"

StatusStepAllowed(s, t) ==
    \/ s = t
    \/ s = "absent" /\ t \in {"pending", "queued"}
    \/ s \in {"pending", "queued"} /\ t = "processing"
    \/ s = "processing" /\ t \in {"completed", "failed"}

C2_ProgressMonotone ==
    /\ [](\A j \in JobIds : job[j].progress \in 0..100)
    /\ [][\A j \in JobIds : job'[j].progress >= job[j].progress]_vars

\* C2's case: a chain that committed every checkpoint up to 100 and then
\* took the failure path.
C2_Witness ==
    \E j \in JobIds :
        /\ app[j] = "celery"
        /\ job[j].status = "failed"
        /\ job[j].progress = CompletedProgress

\* C3: when a stage has raised and the pipeline has returned control, the job
\* is Failed, an error message is recorded, the progress is the one committed
\* before the error, and no stage step ran after the error.
C3_StageErrorFailsJob ==
    \A j \in JobIds :
        (hist[j].err # "none" /\ Finished(j)) =>
            /\ job[j].status = "failed"
            /\ job[j].error # None
            /\ job[j].progress = hist[j].errProgress
            /\ ~hist[j].after

\* C4: a job whose translator call raised ends Failed with an error message
\* recorded and no result reference: the failure is not swallowed into a
\* Completed job.  (Whether the recorded message can be empty is C5's matter.)
C4_TranslatorFailureFailsJob ==
    \A j \in JobIds :
        (hist[j].trRaised /\ Finished(j)) =>
            /\ job[j].status = "failed"
            /\ job[j].error # None
            /\ ResultRef(j) = None

\* C5: a status response that says Failed carries a non-empty error message.
C5_FailedReadHasError ==
    (rd.at = "done" /\ rd.status = "failed") => rd.error \notin {None, ""}

\* C6: a job is Completed only with its result stored, and a status response
\* that says Completed carries progress 100 and a result reference.
C6_CompletedReadConsistent ==
    /\ \A j \in JobIds : job[j].status = "completed" => artifact[j].stored
    /\ (rd.at = "done" /\ rd.status = "completed") =>
           (rd.progress = CompletedProgress /\ rd.result # None)

\* C7: no page is translated while a page of the document is unextracted, and
\* no page is rendered while a page of the document is untranslated.
C7_StagesInOrder ==
    \A j \in JobIds :
        /\ trn[j] # {} => ext[j] = Pages(j)
        /\ out[j] # <<>> => trn[j] = Pages(j)

\* C8: a job in which a page (or the split into pages) failed ends Failed, and
\* the result of a Completed job has the translation rendered on every page.
C8_PageFailureFailsJob ==
    \A j \in JobIds :
        /\ (hist[j].err # "none" /\ Finished(j)) => job[j].status = "failed"
        /\ (job[j].status = "completed" /\ artifact[j].stored) =>
               \A i \in 1..Len(artifact[j].pages) : artifact[j].pages[i].rendered

C10_AdvanceIdempotent ==
    [][\A j \in JobIds :
          TaskOf(pc[j]) \in hist[j].done => job'[j] = job[j]]_vars

\* C11: an upload whose file does not decode is refused at submission: it is
\* not answered with a job id and no job record exists for such a file (so
\* no job can end Failed over a file that does not decode).
C11_UndecodableRejected ==
    /\ resp.code = 200 => resp.doc.decodable
    /\ \A j \in JobIds : job[j].status # "absent" => doc[j].decodable

\* C12: an upload that names a source or target language outside the
\* registry is answered with a job, and the language lookups of the job give
\* the default ("eng" for tesseract, "en" for the model) for such a name.
C12_UnknownLanguageDegrades ==
    /\ (resp.code # 0 /\ ({resp.doc.source, resp.doc.target} \ Registry # {}))
          => (resp.code = 200 /\ resp.job \in JobIds)
    /\ \A j \in JobIds :
          (job[j].status # "absent" /\ doc[j].source \notin Registry) =>
              /\ map_language_to_tesseract(doc[j].source) = "eng"
              /\ get_model_name(doc[j].source, doc[j].target)[1] = "en"

InImage(b, img) ==
    /\ 0 <= b.x /\ 0 <= b.y
    /\ b.w >= 1 /\ b.h >= 1
    /\ b.x + b.w <= img.W
    /\ b.y + b.h <= img.H

\* C13: every region a detector gives for an image of width W and height H
\* has a box with 0 <= x, 0 <= y, w >= 1, h >= 1, x + w <= W and y + h <= H.
C13_BoxWithinImage ==
    \A k \in 1..Len(det.regions) : InImage(det.regions[k].box, det.image)

\* C13's case: a contour closer to two edges of the image than the padding,
\* detected and padded.
C13_Witness ==
    /\ det.at = "done" /\ det.detector = "contours"
    /\ \E k \in 1..Len(det.regions) :
          LET f == det.regions[k].found
          IN  /\ f.x > 0 /\ f.x < padding
              /\ f.y + f.h < det.image.H /\ f.y + f.h > det.image.H - padding

\* Box a contains box b.
Contains(a, b) ==
    /\ a.x <= b.x /\ a.y <= b.y
    /\ b.x + b.w <= a.x + a.w
    /\ b.y + b.h <= a.y + a.h

\* C14: every region detect_text_regions gives has, after padding and
\* clamping, width >= 20 and height >= 20, and its box contains the contour
\* rectangle it was found as.
C14_MinSizeAfterPadding ==
    det.detector = "contours" =>
        \A k \in 1..Len(det.regions) :
            /\ det.regions[k].box.w >= MinRegionSide
            /\ det.regions[k].box.h >= MinRegionSide
            /\ Contains(det.regions[k].box, det.regions[k].found)

\* C14's case: a region of the minimum width whose padding was cut by the
\* edge of the image.
C14_Witness ==
    /\ det.at = "done" /\ det.detector = "contours"
    /\ \E k \in 1..Len(det.regions) :
          /\ det.regions[k].found.w = MinRegionSide
          /\ det.regions[k].box.w < MinRegionSide + 2 * padding

\* Nothing in the image passes the detector's filters.
NothingDetected(d) ==
    IF d.detector = "contours"
    THEN \A k \in 1..Len(d.image.contours) :
            \/ TooSmall(d.image.contours[k].w, d.image.contours[k].h)
            \/ TooLarge(d.image.contours[k].w, d.image.contours[k].h,
                        d.image.W, d.image.H)
    ELSE ConfidentWords(d.image.words) = <<>>

\* C15: detection on an image of one colour, or on one in which nothing
\* passes the filters, returns the empty list without raising; detection
\* raises only for an image that does not decode.
C15_BlankImageNoRegions ==
    /\ (det.at = "done" /\ det.image.decodable
          /\ (det.image.uniform \/ NothingDetected(det)))
        => (det.regions = <<>> /\ ~det.raised)
    /\ det.raised => ~det.image.decodable

\* C16: every line a renderer draws is at most as wide as the box, or is one
\* word.
C16_LineFitsOrSingleWord ==
    \A k \in 1..Len(lay.drawn) :
        \/ TextLength(lay.drawn[k].line) <= lay.box.w
        \/ Len(lay.drawn[k].line) = 1

\* C16's case: a text wrapped into several lines, one of them of several
\* words and one of them a single word wider than the box.
C16_Witness ==
    /\ lay.at = "done"
    /\ Len(lay.drawn) >= 2
    /\ \E k \in 1..Len(lay.drawn) : Len(lay.drawn[k].line) >= 2
    /\ \E k \in 1..Len(lay.drawn) : TextLength(lay.drawn[k].line) > lay.box.w

\* C17: every line a renderer draws has its top at or above the bottom edge
\* y + h of the box.
C17_LineTopInBox ==
    \A k \in 1..Len(lay.drawn) : lay.drawn[k].top <= lay.box.y + lay.box.h

\* The lines the wrap of the text gives.
WrappedLines(l) == WrapLoop(<<l.text.words>>, 1, l.box.w)

\* C17's case: the service renderer on a text of more lines than it drew.
C17_Witness ==
    /\ lay.at = "done" /\ lay.renderer = "service"
    /\ lay.drawn # <<>>
    /\ Len(lay.drawn) < Len(WrappedLines(lay))

\* The pixel is in the box [x, x + w) x [y, y + h).
InBox(px, box) ==
    /\ box.x <= px[1] /\ px[1] < box.x + box.w
    /\ box.y <= px[2] /\ px[2] < box.y + box.h

\* C18: after a rendering every pixel outside the box of the region is as it
\* was on the page.
C18_PixelsOutsideUnchanged ==
    lay.at = "done" =>
        \A px \in Pixels : ~InBox(px, lay.box) => OutputPixel(px) = lay.page

\* The minimum confidence the extractor is configured with.
ConfiguredMinimum(extractor) ==
    IF extractor = "processor" THEN min_confidence ELSE ServiceMinConfidence

\* C19: every region an extractor passes on to the translator and the
\* renderer has a text that is not blank and a confidence at or above the
\* extractor's minimum.
C19_OnlyConfidentText ==
    \A k \in 1..Len(ocr.passed) :
        /\ ~IsBlank(ocr.passed[k].text)
        /\ ocr.passed[k].conf >= ConfiguredMinimum(ocr.extractor)

\* C20: OCRService._estimate_font_size gives max(floor(0.7 * height), 10)
\* for every height >= 0, and no estimator gives a size below its minimum
\* (10; 12 for the overlay).
C20_FontSizeFormula ==
    fnt.at = "done" =>
        /\ fnt.estimator = "ocr" => fnt.size = Max((7 * fnt.height) \div 10, 10)
        /\ fnt.estimator = "processor" => fnt.size >= 10
        /\ fnt.estimator = "overlay" => fnt.size >= 12

\* The box is below the minimal size of a region that is rendered.
BelowMinimalSize(box) == box.w < MinOverlayWidth \/ box.h < MinOverlayHeight

\* C21: a renderer skips a region whose box is below the minimal size: no
\* background rectangle is painted, no text is drawn, and the pixels of the
\* box are as they were on the page.
C21_SmallRegionSkipped ==
    (lay.at = "done" /\ BelowMinimalSize(lay.box)) =>
        /\ ~lay.filled
        /\ lay.drawn = <<>>
        /\ \A px \in Pixels : InBox(px, lay.box) => OutputPixel(px) = lay.page

\* The state of the pipeline of job j, its record aside.
PipelineOf(j) ==
    <<app[j], pc[j], idx[j], success[j], ext[j], trn[j], out[j], artifact[j], hist[j]>>

\* The step is one of job j: its upload, or a step of its pipeline.
StepOf(j) == PipelineOf(j)' # PipelineOf(j)

\* C22: a job that is Completed or Failed has no file left in its temporary
\* working storage, and a step of one job leaves the temporary storage of
\* every other job as it is.
C22_TempStorageRemoved ==
    /\ [](\A j \in JobIds : Terminal(job[j].status) => tmp[j] = {})
    /\ [][\A j, k \in JobIds :
             (j # k /\ StepOf(j)) => tmp'[k] = tmp[k]]_vars

\* C23: with the pipelines of several jobs interleaved, a step of one job
\* leaves the record (status, progress, error message, result) of every
\* other job as it is.
C23_JobsIsolated ==
    [][\A j, k \in JobIds : (j # k /\ StepOf(j)) => job'[k] = job[k]]_vars

\* C23's case: two jobs on two servers, the second uploaded while the first
\* was under way and Failed while the first is still Processing.
C23_Witness ==
    /\ app["j1"] = "celery" /\ app["j2"] = "simple"
    /\ job["j1"].status = "processing" /\ job["j1"].progress = TranslationStartProgress
    /\ job["j2"].status = "failed" /\ job["j2"].error # None

\* The sequence a is b with some of its items left out.
RECURSIVE IsSubSeq(_, _)
IsSubSeq(a, b) ==
    IF a = <<>> THEN TRUE
    ELSE IF b = <<>> THEN FALSE
    ELSE IF Head(a) = Head(b) THEN IsSubSeq(Tail(a), Tail(b))
    ELSE IsSubSeq(a, Tail(b))

\* The items of the readings as perform_ocr stores them.
Cleaned(readings) ==
    [i \in 1..Len(readings) |-> Reading(CleanText(readings[i].text), readings[i].conf)]

\* C24: the translation gives one region for each region it is given, in the
\* same order: region i of the output is region i of the input with the
\* translation of its text as its text and nothing else changed, and the
\* input is after the call what it was before; the extractors pass the
\* regions on in the order they were read.
C24_TranslationOneToOne ==
    /\ ocr.at = "translated" =>
          /\ Len(ocr.translated) = Len(ocr.passed)
          /\ \A i \in 1..Len(ocr.passed) :
                /\ ocr.translated[i].text = Translation(ocr.passed[i].text)
                /\ ocr.translated[i].conf = ocr.passed[i].conf
                /\ DOMAIN ocr.translated[i] = DOMAIN ocr.passed[i]
          /\ ocr.passed = process_image_results(ocr.readings)
    /\ ocr.at \in {"done", "translated"} =>
          IsSubSeq(ocr.passed, IF ocr.extractor = "processor"
                               THEN Cleaned(ocr.readings) ELSE ocr.readings)

\* C24's case: two regions with different texts and confidences, translated.
C24_Witness ==
    /\ ocr.at = "translated"
    /\ Len(ocr.translated) = 2
    /\ ocr.passed[1].text # ocr.passed[2].text
    /\ ocr.passed[1].conf # ocr.passed[2].conf

\* C25: a job has an error message only while its status is Failed, and a
\* step that writes the error message leaves the job Failed.
C25_ErrorOnlyWhenFailed ==
    /\ [](\A j \in JobIds : job[j].error # None => job[j].status = "failed")
    /\ [][\A j \in JobIds :
             job'[j].error # job[j].error => job'[j].status = "failed"]_vars

\* C25's case: the except block of process_file has written the status and
\* not yet the message.
C25_Witness ==
    \E j \in JobIds :
        /\ app[j] = "simple"
        /\ pc[j] = "pf_except_error"
        /\ job[j].status = "failed"
        /\ job[j].error = None

\* The lines of a greedy wrap: each line is the longest run of the words
\* that are left whose width is at most the width of the box, or one word
\* when the first of them is wider than the box.
RECURSIVE GreedyLines(_, _)
GreedyLines(words, width) ==
    IF words = <<>> THEN <<>>
    ELSE LET fitting == {n \in 1..Len(words) : TextLength(SubSeq(words, 1, n)) <= width}
             n == IF fitting = {} THEN 1
                  ELSE CHOOSE m \in fitting : \A k \in fitting : k <= m
         IN  <<SubSeq(words, 1, n)>> \o GreedyLines(SubSeq(words, n + 1, Len(words)), width)

\* The lines of the drawing, without where they were drawn.
LinesOf(drawn) == [k \in 1..Len(drawn) |-> drawn[k].line]

\* The lines MangaProcessor._draw_text_with_wrapping breaks the words into:
\* what it draws in a box high enough for every line.
ProcessorLines(words, width, font_height) ==
    LinesOf(processor_draw_text_with_wrapping(
                words, Box(0, 0, width, Len(words) * (font_height + LineSpacing)),
                font_height))

\* C26: the wrap is greedy, and the wrapper of RenderingService and the
\* wrapper of MangaProcessor break every text into the same lines.
C26_GreedyWrapEquivalent ==
    (lay.at = "done" /\ lay.text.words # <<>>) =>
        LET greedy == GreedyLines(lay.text.words, lay.box.w)
        IN  /\ WrappedLines(lay) = greedy
            /\ ProcessorLines(lay.text.words, lay.box.w, lay.font_height) = greedy
            /\ LinesOf(lay.drawn) = SubSeq(greedy, 1, Len(lay.drawn))

\* C26's case: a text of three words or more, its first word wider than the
\* box and two later words on one line.
C26_Witness ==
    /\ lay.at = "done"
    /\ Len(lay.text.words) >= 3
    /\ lay.text.words[1] > lay.box.w
    /\ \E k \in 1..Len(WrappedLines(lay)) : Len(WrappedLines(lay)[k]) >= 2

\* The words of the lines, one after the other.
RECURSIVE Flatten(_)
Flatten(lines) == IF lines = <<>> THEN <<>> ELSE Head(lines) \o Flatten(Tail(lines))

\* The height of a line of the renderer: font.getbbox("Ay")[3] in
\* RenderingService, font.getbbox("A")[3] + 2 in MangaProcessor.
LineHeight(l) ==
    IF l.renderer = "processor" THEN l.font_height + LineSpacing ELSE l.font_height

\* C27: the words of the lines that were drawn, in the order of the drawing,
\* are the first words of the text, each word once; when the top of every
\* line of the text is within the box, every word is drawn; and the
\* rendering leaves the font as it was and draws words of the text only.
C27_TruncationDropsTrailingLines ==
    /\ [](lay.at = "done" =>
            LET drawn_words == Flatten(LinesOf(lay.drawn))
                lines == GreedyLines(lay.text.words, lay.box.w)
            IN  /\ Len(drawn_words) <= Len(lay.text.words)
                /\ drawn_words = SubSeq(lay.text.words, 1, Len(drawn_words))
                /\ \A k \in 1..Len(lay.drawn) :
                      lay.drawn[k].top = lay.box.y + (k - 1) * LineHeight(lay)
                /\ (~(lay.renderer = "processor" /\ lay.text.is_empty)
                      /\ (Len(lines) - 1) * LineHeight(lay) <= lay.box.h)
                    => drawn_words = lay.text.words)
    /\ [][lay'.font_height = lay.font_height /\ lay'.text = lay.text]_vars

\* C27's case: MangaProcessor on a text of more lines than the box has room
\* for, the first of them drawn.
C27_Witness ==
    /\ lay.at = "done" /\ lay.renderer = "processor"
    /\ lay.drawn # <<>>
    /\ Len(lay.drawn) < Len(GreedyLines(lay.text.words, lay.box.w))

\* The job is in the table and neither Completed nor Failed.
Unfinished(j) == job[j].status \in {"pending", "queued", "processing"}

C29_WrapLoopTerminates ==
    /\ <>(lay.at = "wrapped")
    /\ [](lay.at = "wrapped" =>
            /\ Len(lay.lines) <= Len(lay.text.words)
            /\ \A k \in 1..Len(lay.lines) : lay.lines[k] # <<>>
            /\ Flatten(lay.lines) = lay.text.words)

\* C29's case: the loop has ended with one line for each of several words,
\* every line wider than the box.
C29_Witness ==
    /\ lay.at = "wrapped"
    /\ Len(lay.lines) = MaxWords
    /\ \A k \in 1..Len(lay.lines) : TextLength(lay.lines[k]) > lay.box.w

\* C30: a job has a result reference on its record only while it is
\* Completed (so no Failed job has one), a status response carries a result
\* only together with the status Completed, and a download request is
\* answered with something else than a refusal only for a job read as
\* Completed.
C30_ResultOnlyWhenCompleted ==
    /\ \A j \in JobIds : job[j].result # None => job[j].status = "completed"
    /\ (rd.at = "done" /\ rd.result # None) => rd.status = "completed"
    /\ (rd.at = "download" /\ rd.result # None) => rd.status = "completed"

====
